---- MODULE Spec2Model ----
(***************************************************************************)
(* Model of the yocto_raytrace renderer of the repository: the BVH builder *)
(* (split_middle, build_bvh, init_bvh), the BVH traversal                  *)
(* (intersect_shape_bvh, intersect_scene_bvh) and the progressive sampler  *)
(* (init_state, render_sample, render_samples).                            *)
(*                                                                         *)
(* Number representation.  Coordinates are integers.  Ray directions have  *)
(* components +1/-1, so a ray parameter t is a multiple of 1/3; every ray  *)
(* parameter (tmin, tmax, distance) is stored as the integer 3*t.  The     *)
(* centre of a box is stored doubled (min + max) so that it stays an       *)
(* integer.  Frames are translations.  Array indices are 0-based as in the *)
(* source; a sequence s holds index i at s[i + 1].                         *)
(***************************************************************************)
EXTENDS Integers, Sequences, FiniteSets, TLC

\* ------------------------------------------------------------------------
\* Bounds of the model
\* ------------------------------------------------------------------------
MaxPrims == 5
MaxInst == 5
MaxTotal == 6

\* ------------------------------------------------------------------------
\* Vector and box arithmetic (yocto_math / yocto_geometry as used by the code)
\* ------------------------------------------------------------------------
flt_max == 100000

Min2(a, b) == IF a < b THEN a ELSE b
Max2(a, b) == IF a > b THEN a ELSE b

\* float addition next to flt_max absorbs the small operand
Sat(x) == IF x > flt_max THEN flt_max ELSE IF x < -flt_max THEN -flt_max ELSE x

zero3 == <<0, 0, 0>>
VAdd(a, b) == <<a[1] + b[1], a[2] + b[2], a[3] + b[3]>>
VSub(a, b) == <<a[1] - b[1], a[2] - b[2], a[3] - b[3]>>
VScale(a, k) == <<a[1] * k, a[2] * k, a[3] * k>>
VMin(a, b) == <<Min2(a[1], b[1]), Min2(a[2], b[2]), Min2(a[3], b[3])>>
VMax(a, b) == <<Max2(a[1], b[1]), Max2(a[2], b[2]), Max2(a[3], b[3])>>
VSat(a) == <<Sat(a[1]), Sat(a[2]), Sat(a[3])>>
Dot(a, b) == a[1] * b[1] + a[2] * b[2] + a[3] * b[3]

invalidb3f == [min |-> <<flt_max, flt_max, flt_max>>,
               max |-> <<-flt_max, -flt_max, -flt_max>>]

\* merge(bbox, bbox)
merge(a, b) == [min |-> VMin(a.min, b.min), max |-> VMax(a.max, b.max)]

\* merge(bbox, point), on doubled centres
merge_point(a, p) == [min |-> VMin(a.min, p), max |-> VMax(a.max, p)]

\* twice center(bbox)
center2(b) == VSat(VAdd(b.min, b.max))

\* point_bounds(p, r)
point_bounds(p, r) == [min |-> VSub(p, <<r, r, r>>), max |-> VAdd(p, <<r, r, r>>)]

\* transform_bbox(frame, bbox) for a translation frame: the box of the eight
\* transformed corners
transform_bbox(frame, b) ==
    [min |-> VSat(VAdd(VMin(b.min, b.max), frame)),
     max |-> VSat(VAdd(VMax(b.min, b.max), frame))]

\* a <= b on boxes: a lies inside b
BoxInside(a, b) ==
    \A k \in 1..3 : b.min[k] <= a.min[k] /\ a.max[k] <= b.max[k]

\* ------------------------------------------------------------------------
\* BVH construction
\* ------------------------------------------------------------------------
bvh_max_prims == 4

\* raytrace_bvh_node{}
EmptyNode == [bbox |-> invalidb3f, start |-> 0, num |-> 0, axis |-> 0,
              internal |-> FALSE]

\* PartitionLoop that finds the two ends but leaves the elements in place
PartitionLoop_noswap(prims, first, last, axis, middle2) ==
    LET Pred(i) == 2 * prims[i + 1].center2[axis + 1] < middle2
    IN  [prims |-> prims,
         mid |-> first + Cardinality({i \in first..(last - 1) : Pred(i)})]

\* std::partition over [first, last) of a 0-based array: elements satisfying
\* the predicate are moved in front by swapping from both ends
RECURSIVE PartitionLoop(_, _, _, _, _)
PartitionLoop(prims, first, last, axis, middle2) ==
    LET Pred(i) == 2 * prims[i + 1].center2[axis + 1] < middle2
        RECURSIVE Fwd(_)
        Fwd(f) == IF f < last /\ Pred(f) THEN Fwd(f + 1) ELSE f
        f1 == Fwd(first)
        RECURSIVE Bwd(_)
        Bwd(l) == IF l > f1 /\ ~Pred(l) THEN Bwd(l - 1) ELSE l
    IN  IF f1 = last THEN [prims |-> prims, mid |-> f1]
        ELSE LET l1 == Bwd(last - 1)
             IN  IF l1 = f1 THEN [prims |-> prims, mid |-> f1]
                 ELSE PartitionLoop(
                        [prims EXCEPT ![f1 + 1] = prims[l1 + 1],
                                      ![l1 + 1] = prims[f1 + 1]],
                        f1 + 1, l1, axis, middle2)

\* bounding box of the doubled centres of primitives[start, end)
CentersBox(prims, start, end) ==
    LET RECURSIVE Acc(_, _)
        Acc(i, b) == IF i >= end THEN b
                     ELSE Acc(i + 1, merge_point(b, prims[i + 1].center2))
    IN  Acc(start, invalidb3f)

SplitAxis(csize) ==
    LET a0 == 0
        a1 == IF csize[2] >= csize[1] /\ csize[2] >= csize[3] THEN 1
              ELSE IF csize[1] >= csize[2] /\ csize[1] >= csize[3] THEN 0
              ELSE a0
    IN  IF csize[3] >= csize[1] /\ csize[3] >= csize[2] THEN 2 ELSE a1

split_middle(prims, start, end) ==
    LET half  == (start + end) \div 2
        cbbox == CentersBox(prims, start, end)
        csize == VSub(cbbox.max, cbbox.min)
    IN  IF csize = zero3 THEN [prims |-> prims, mid |-> half, axis |-> 0]
        ELSE LET axis == SplitAxis(csize)
                 \* 2 * center(cbbox)[axis], on doubled centres
                 middle2 == cbbox.min[axis + 1] + cbbox.max[axis + 1]
                 part == PartitionLoop(prims, start, end, axis, middle2)
             IN  IF part.mid = start \/ part.mid = end
                 THEN [prims |-> part.prims, mid |-> half, axis |-> axis]
                 ELSE [prims |-> part.prims, mid |-> part.mid, axis |-> axis]

\* SpanBox with the loop started one primitive late
SpanBox_skipfirst(prims, start, end) ==
    LET RECURSIVE Acc(_, _)
        Acc(i, b) == IF i >= end THEN b
                     ELSE Acc(i + 1, merge(b, prims[i + 1].bbox))
    IN  Acc(start + 1, invalidb3f)

\* union of the boxes of primitives[start, end)
SpanBox(prims, start, end) ==
    LET RECURSIVE Acc(_, _)
        Acc(i, b) == IF i >= end THEN b
                     ELSE Acc(i + 1, merge(b, prims[i + 1].bbox))
    IN  Acc(start, invalidb3f)

\* BuildLoop with the two halves of a split span queued for the wrong children
RECURSIVE BuildLoop_swappedspans(_, _, _)
BuildLoop_swappedspans(nodes, prims, queue) ==
    IF queue = <<>> THEN [nodes |-> nodes, primitives |-> prims]
    ELSE LET next   == Head(queue)
             nodeid == next[1]
             start  == next[2]
             end    == next[3]
             bbox   == SpanBox(prims, start, end)
         IN  IF end - start > bvh_max_prims
             THEN LET sp == split_middle(prims, start, end)
                      first == Len(nodes)
                      node == [bbox |-> bbox, start |-> first, num |-> 2,
                               axis |-> sp.axis, internal |-> TRUE]
                  IN  BuildLoop_swappedspans(
                        [nodes EXCEPT ![nodeid + 1] = node]
                            \o <<EmptyNode, EmptyNode>>,
                        sp.prims,
                        Tail(queue) \o <<<<first, sp.mid, end>>,
                                         <<first + 1, start, sp.mid>>>>)
             ELSE LET node == [bbox |-> bbox, start |-> start,
                               num |-> end - start, axis |-> 0,
                               internal |-> FALSE]
                  IN  BuildLoop_swappedspans(
                        [nodes EXCEPT ![nodeid + 1] = node], prims,
                        Tail(queue))

\* the while loop of build_bvh: queue holds <<nodeid, start, end>>
RECURSIVE BuildLoop(_, _, _)
BuildLoop(nodes, prims, queue) ==
    IF queue = <<>> THEN [nodes |-> nodes, primitives |-> prims]
    ELSE LET next   == Head(queue)
             nodeid == next[1]
             start  == next[2]
             end    == next[3]
             bbox   == SpanBox(prims, start, end)
         IN  IF end - start > bvh_max_prims
             THEN LET sp == split_middle(prims, start, end)
                      first == Len(nodes)
                      node == [bbox |-> bbox, start |-> first, num |-> 2,
                               axis |-> sp.axis, internal |-> TRUE]
                  IN  BuildLoop(
                        [nodes EXCEPT ![nodeid + 1] = node]
                            \o <<EmptyNode, EmptyNode>>,
                        sp.prims,
                        Tail(queue) \o <<<<first, start, sp.mid>>,
                                         <<first + 1, sp.mid, end>>>>)
             ELSE LET node == [bbox |-> bbox, start |-> start,
                               num |-> end - start, axis |-> 0,
                               internal |-> FALSE]
                  IN  BuildLoop([nodes EXCEPT ![nodeid + 1] = node], prims,
                                Tail(queue))

\* build_bvh(nodes, primitives): the node array and the reordered primitives
build_bvh(prims) == BuildLoop(<<EmptyNode>>, prims, <<<<0, 0, Len(prims)>>>>)

\* ------------------------------------------------------------------------
\* BVH construction over coordinates given by their exponents
\* ------------------------------------------------------------------------
\* Centres spread over the whole range of a float do not fit the integer
\* coordinates used above.  Here a coordinate e stands for the float 3^e, and
\* the points lie on the diagonal x = y = z.  Minimum, maximum and every
\* comparison of build_bvh and of the ray queries along the diagonal depend on
\* the order of the coordinates only, which the exponents keep; the one
\* exception is the midpoint of split_middle: (3^lo + 3^hi) / 2 is above
\* 3^(hi - 1) and, for lo < hi, below 3^hi, so the centre 3^e is below the
\* midpoint exactly if e < hi.
SetMin(S) == CHOOSE m \in S : \A x \in S : m <= x
SetMax(S) == CHOOSE m \in S : \A x \in S : m >= x

\* the merge of invalidb3f with the boxes (or the doubled centres) of
\* primitives[start, end), as the componentwise extremes
FlatSpanBox(prims, start, end) ==
    [min |-> [c \in 1..3 |->
                SetMin({flt_max} \cup {prims[i + 1].bbox.min[c] :
                                          i \in start..(end - 1)})],
     max |-> [c \in 1..3 |->
                SetMax({-flt_max} \cup {prims[i + 1].bbox.max[c] :
                                           i \in start..(end - 1)})]]
FlatCentersBox(prims, start, end) ==
    [min |-> [c \in 1..3 |->
                SetMin({flt_max} \cup {prims[i + 1].center2[c] :
                                          i \in start..(end - 1)})],
     max |-> [c \in 1..3 |->
                SetMax({-flt_max} \cup {prims[i + 1].center2[c] :
                                           i \in start..(end - 1)})]]

\* exp_split_middle that leaves the split at start when the centres coincide
exp_split_middle_nohalf(prims, start, end) ==
    LET half  == (start + end) \div 2
        cbbox == FlatCentersBox(prims, start, end)
        csize == VSub(cbbox.max, cbbox.min)
    IN  IF csize = zero3 THEN [prims |-> prims, mid |-> start, axis |-> 0]
        ELSE LET axis == SplitAxis(csize)
                 middle2 == 2 * cbbox.max[axis + 1]
                 part == PartitionLoop(prims, start, end, axis, middle2)
             IN  IF part.mid = start \/ part.mid = end
                 THEN [prims |-> part.prims, mid |-> half, axis |-> axis]
                 ELSE [prims |-> part.prims, mid |-> part.mid, axis |-> axis]

exp_split_middle(prims, start, end) ==
    LET half  == (start + end) \div 2
        cbbox == FlatCentersBox(prims, start, end)
        csize == VSub(cbbox.max, cbbox.min)
    IN  IF csize = zero3 THEN [prims |-> prims, mid |-> half, axis |-> 0]
        ELSE LET axis == SplitAxis(csize)
                 \* center < middle as 2 * center2 < 2 * (doubled maximum)
                 middle2 == 2 * cbbox.max[axis + 1]
                 part == PartitionLoop(prims, start, end, axis, middle2)
             IN  IF part.mid = start \/ part.mid = end
                 THEN [prims |-> part.prims, mid |-> half, axis |-> axis]
                 ELSE [prims |-> part.prims, mid |-> part.mid, axis |-> axis]

\* exp_build_step in which the span of the second child starts one entry
\* before the split
exp_build_step_overlap(nodes, prims, queue) ==
    LET next   == Head(queue)
        nodeid == next[1]
        start  == next[2]
        end    == next[3]
        bbox   == FlatSpanBox(prims, start, end)
    IN  IF end - start > bvh_max_prims
        THEN LET sp == exp_split_middle(prims, start, end)
                 first == Len(nodes)
                 node == [bbox |-> bbox, start |-> first, num |-> 2,
                          axis |-> sp.axis, internal |-> TRUE]
             IN  [nodes |-> [nodes EXCEPT ![nodeid + 1] = node]
                               \o <<EmptyNode, EmptyNode>>,
                  prims |-> sp.prims,
                  queue |-> Tail(queue) \o <<<<first, start, sp.mid>>,
                                             <<first + 1, sp.mid - 1, end>>>>]
        ELSE LET node == [bbox |-> bbox, start |-> start,
                          num |-> end - start, axis |-> 0,
                          internal |-> FALSE]
             IN  [nodes |-> [nodes EXCEPT ![nodeid + 1] = node],
                  prims |-> prims, queue |-> Tail(queue)]

\* one iteration of the while loop of build_bvh: the first entry
\* <<nodeid, start, end>> of the queue is taken and its node is filled in
exp_build_step(nodes, prims, queue) ==
    LET next   == Head(queue)
        nodeid == next[1]
        start  == next[2]
        end    == next[3]
        bbox   == FlatSpanBox(prims, start, end)
    IN  IF end - start > bvh_max_prims
        THEN LET sp == exp_split_middle(prims, start, end)
                 first == Len(nodes)
                 node == [bbox |-> bbox, start |-> first, num |-> 2,
                          axis |-> sp.axis, internal |-> TRUE]
             IN  [nodes |-> [nodes EXCEPT ![nodeid + 1] = node]
                               \o <<EmptyNode, EmptyNode>>,
                  prims |-> sp.prims,
                  queue |-> Tail(queue) \o <<<<first, start, sp.mid>>,
                                             <<first + 1, sp.mid, end>>>>]
        ELSE LET node == [bbox |-> bbox, start |-> start,
                          num |-> end - start, axis |-> 0,
                          internal |-> FALSE]
             IN  [nodes |-> [nodes EXCEPT ![nodeid + 1] = node],
                  prims |-> prims, queue |-> Tail(queue)]

\* ------------------------------------------------------------------------
\* Ray queries
\* ------------------------------------------------------------------------
\* ray_eps, as a ray parameter in thirds: smaller than every positive parameter
\* of the model, larger than zero
ray_eps == 1

\* ray3f{o, d}: tmin = ray_eps, tmax = flt_max
MakeRay(o, d, tmax) == [o |-> o, d |-> d, tmin |-> ray_eps, tmax |-> tmax]

\* transform_ray(inverse(frame), ray) for a translation frame
transform_ray_inverse(frame, ray) == [ray EXCEPT !.o = VSub(ray.o, frame)]

VMaxElem(a) == Max2(Max2(a[1], a[2]), a[3])
VMinElem(a) == Min2(Min2(a[1], a[2]), a[3])

\* intersect_bbox(ray, ray_dinv, bbox): slab test; ray_dinv = 1 / d = d for
\* components +1/-1, parameters in thirds
intersect_bbox(ray, bbox) ==
    LET it_min == <<3 * (bbox.min[1] - ray.o[1]) * ray.d[1],
                    3 * (bbox.min[2] - ray.o[2]) * ray.d[2],
                    3 * (bbox.min[3] - ray.o[3]) * ray.d[3]>>
        it_max == <<3 * (bbox.max[1] - ray.o[1]) * ray.d[1],
                    3 * (bbox.max[2] - ray.o[2]) * ray.d[2],
                    3 * (bbox.max[3] - ray.o[3]) * ray.d[3]>>
        tmin == VMin(it_min, it_max)
        tmax == VMax(it_min, it_max)
        t0 == Max2(VMaxElem(tmin), ray.tmin)
        t1 == Min2(VMinElem(tmax), ray.tmax)
    IN  t0 <= t1

\* intersect_point(ray, p, r, uv, dist): the point as a disc facing the ray.
\* t = dot(w, d) / dot(d, d) with dot(d, d) = 3, so 3 t = dot(w, d)
intersect_point(ray, p, r) ==
    LET w   == VSub(p, ray.o)
        t3  == Dot(w, ray.d)
        prp3 == VSub(VScale(w, 3), VScale(ray.d, t3))
    IN  IF t3 < ray.tmin \/ t3 > ray.tmax THEN [hit |-> FALSE]
        ELSE IF Dot(prp3, prp3) > 9 * r * r THEN [hit |-> FALSE]
        ELSE [hit |-> TRUE, uv |-> <<0, 0>>, dist |-> t3]

\* the children of an internal node, pushed so that the nearer one along the
\* split axis is popped first
PushChildren(stack, node, ray) ==
    LET ray_dsign == IF ray.d[node.axis + 1] < 0 THEN 1 ELSE 0
    IN  IF ray_dsign = 1 THEN stack \o <<node.start + 0, node.start + 1>>
        ELSE stack \o <<node.start + 1, node.start + 0>>

\* LeafPoints without the update of ray.tmax on a hit
RECURSIVE LeafPoints_keeptmax(_, _, _, _, _)
LeafPoints_keeptmax(shape, ray, idx, last, out) ==
    IF idx >= last THEN [ray |-> ray, out |-> out]
    ELSE LET prim == shape.bvh.primitives[idx + 1]
             p    == shape.points[prim + 1]
             isec == intersect_point(ray, shape.positions[p + 1],
                                     shape.radius[p + 1])
         IN  IF isec.hit
             THEN LeafPoints_keeptmax(shape, ray, idx + 1, last,
                    [out EXCEPT !.hit = TRUE, !.element = prim,
                                !.uv = isec.uv, !.distance = isec.dist])
             ELSE LeafPoints_keeptmax(shape, ray, idx + 1, last, out)

\* the primitives of one leaf of a shape with points
RECURSIVE LeafPoints(_, _, _, _, _)
LeafPoints(shape, ray, idx, last, out) ==
    IF idx >= last THEN [ray |-> ray, out |-> out]
    ELSE LET prim == shape.bvh.primitives[idx + 1]
             p    == shape.points[prim + 1]
             isec == intersect_point(ray, shape.positions[p + 1],
                                     shape.radius[p + 1])
         IN  IF isec.hit
             THEN LeafPoints(shape, [ray EXCEPT !.tmax = isec.dist], idx + 1,
                    last,
                    [out EXCEPT !.hit = TRUE, !.element = prim,
                                !.uv = isec.uv, !.distance = isec.dist])
             ELSE LeafPoints(shape, ray, idx + 1, last, out)

\* the walking loop of intersect_shape_bvh; out carries hit and the output
\* parameters element, uv, distance, and the deepest stack filling seen
RECURSIVE ShapeWalk(_, _, _, _, _)
ShapeWalk(shape, ray, stack, out, find_any) ==
    IF stack = <<>> THEN out
    ELSE LET node == shape.bvh.nodes[stack[Len(stack)] + 1]
             rest == SubSeq(stack, 1, Len(stack) - 1)
         IN  IF ~intersect_bbox(ray, node.bbox)
             THEN ShapeWalk(shape, ray, rest, out, find_any)
             ELSE IF node.internal
             THEN LET pushed == PushChildren(rest, node, ray)
                  IN  ShapeWalk(shape, ray, pushed,
                        [out EXCEPT !.maxstack = Max2(@, Len(pushed))],
                        find_any)
             ELSE IF shape.points # <<>>
             THEN LET leaf == LeafPoints(shape, ray, node.start,
                                         node.start + node.num, out)
                  IN  IF find_any /\ leaf.out.hit THEN leaf.out
                      ELSE ShapeWalk(shape, leaf.ray, rest, leaf.out, find_any)
             ELSE IF find_any /\ out.hit THEN out
             ELSE ShapeWalk(shape, ray, rest, out, find_any)

\* one iteration of the walking loop of intersect_shape_bvh: the node on top
\* of the stack is popped and handled; done tells that the function returns
shape_walk_step(shape, ray, stack, out, find_any) ==
    LET node == shape.bvh.nodes[stack[Len(stack)] + 1]
        rest == SubSeq(stack, 1, Len(stack) - 1)
        leaf == LeafPoints(shape, ray, node.start, node.start + node.num, out)
    IN  IF ~intersect_bbox(ray, node.bbox)
        THEN [ray |-> ray, stack |-> rest, out |-> out, done |-> rest = <<>>]
        ELSE IF node.internal
        THEN [ray |-> ray, stack |-> PushChildren(rest, node, ray),
              out |-> out, done |-> FALSE]
        ELSE IF shape.points # <<>>
        THEN [ray |-> leaf.ray, stack |-> rest, out |-> leaf.out,
              done |-> (find_any /\ leaf.out.hit) \/ rest = <<>>]
        ELSE [ray |-> ray, stack |-> rest, out |-> out,
              done |-> (find_any /\ out.hit) \/ rest = <<>>]

\* intersect_shape_bvh(shape, ray, element, uv, distance, find_any): returns
\* hit and the (possibly updated) output parameters
intersect_shape_bvh(shape, ray, element, uv, distance, find_any) ==
    LET out0 == [hit |-> FALSE, element |-> element, uv |-> uv,
                 distance |-> distance, maxstack |-> 0]
    IN  IF shape.bvh.nodes = <<>> THEN out0
        ELSE ShapeWalk(shape, ray, <<0>>, [out0 EXCEPT !.maxstack = 1],
                       find_any)

\* LeafInstances recording every tested instance as hit
RECURSIVE LeafInstances_alwayshit(_, _, _, _, _, _)
LeafInstances_alwayshit(scene, ray, idx, last, out, find_any) ==
    IF idx >= last THEN [ray |-> ray, out |-> out]
    ELSE LET prim      == scene.bvh.primitives[idx + 1]
             instance_ == scene.instances[prim + 1]
             inv_ray   == transform_ray_inverse(instance_.frame, ray)
             sh == intersect_shape_bvh(scene.shapes[instance_.shape + 1],
                     inv_ray, out.element, out.uv, out.distance, find_any)
             out1 == [out EXCEPT !.element = sh.element, !.uv = sh.uv,
                                 !.distance = sh.distance,
                                 !.shapestack = Max2(@, sh.maxstack)]
         IN  LeafInstances_alwayshit(scene, ray, idx + 1, last,
                [out1 EXCEPT !.hit = TRUE, !.instance = prim], find_any)

\* the instances of one leaf of the scene tree
RECURSIVE LeafInstances(_, _, _, _, _, _)
LeafInstances(scene, ray, idx, last, out, find_any) ==
    IF idx >= last THEN [ray |-> ray, out |-> out]
    ELSE LET prim      == scene.bvh.primitives[idx + 1]
             instance_ == scene.instances[prim + 1]
             inv_ray   == transform_ray_inverse(instance_.frame, ray)
             sh == intersect_shape_bvh(scene.shapes[instance_.shape + 1],
                     inv_ray, out.element, out.uv, out.distance, find_any)
             out1 == [out EXCEPT !.element = sh.element, !.uv = sh.uv,
                                 !.distance = sh.distance,
                                 !.shapestack = Max2(@, sh.maxstack)]
         IN  IF sh.hit
             THEN LeafInstances(scene, [ray EXCEPT !.tmax = sh.distance],
                    idx + 1, last,
                    [out1 EXCEPT !.hit = TRUE, !.instance = prim], find_any)
             ELSE LeafInstances(scene, ray, idx + 1, last, out1, find_any)

\* SceneWalk with the early exit taken in any-hit mode whether or not the leaf
\* was hit
RECURSIVE SceneWalk_anyexit(_, _, _, _, _)
SceneWalk_anyexit(scene, ray, stack, out, find_any) ==
    IF stack = <<>> THEN out
    ELSE LET node == scene.bvh.nodes[stack[Len(stack)] + 1]
             rest == SubSeq(stack, 1, Len(stack) - 1)
         IN  IF ~intersect_bbox(ray, node.bbox)
             THEN SceneWalk_anyexit(scene, ray, rest, out, find_any)
             ELSE IF node.internal
             THEN LET pushed == PushChildren(rest, node, ray)
                  IN  SceneWalk_anyexit(scene, ray, pushed,
                        [out EXCEPT !.maxstack = Max2(@, Len(pushed))],
                        find_any)
             ELSE LET leaf == LeafInstances(scene, ray, node.start,
                                node.start + node.num, out, find_any)
                  IN  IF find_any THEN leaf.out
                      ELSE SceneWalk_anyexit(scene, leaf.ray, rest, leaf.out,
                                             find_any)

\* the walking loop of intersect_scene_bvh
RECURSIVE SceneWalk(_, _, _, _, _)
SceneWalk(scene, ray, stack, out, find_any) ==
    IF stack = <<>> THEN out
    ELSE LET node == scene.bvh.nodes[stack[Len(stack)] + 1]
             rest == SubSeq(stack, 1, Len(stack) - 1)
         IN  IF ~intersect_bbox(ray, node.bbox)
             THEN SceneWalk(scene, ray, rest, out, find_any)
             ELSE IF node.internal
             THEN LET pushed == PushChildren(rest, node, ray)
                  IN  SceneWalk(scene, ray, pushed,
                        [out EXCEPT !.maxstack = Max2(@, Len(pushed))],
                        find_any)
             ELSE LET leaf == LeafInstances(scene, ray, node.start,
                                node.start + node.num, out, find_any)
                  IN  IF find_any /\ leaf.out.hit THEN leaf.out
                      ELSE SceneWalk(scene, leaf.ray, rest, leaf.out, find_any)

\* raytrace_intersection{}
NoIntersection == [hit |-> FALSE, instance |-> -1, element |-> -1,
                   uv |-> <<0, 0>>, distance |-> 0, maxstack |-> 0,
                   shapestack |-> 0]

\* intersect_scene_bvh(scene, ray, find_any, non_rigid_frames)
intersect_scene_bvh(scene, ray, find_any) ==
    IF scene.bvh.nodes = <<>> THEN NoIntersection
    ELSE SceneWalk(scene, ray, <<0>>, [NoIntersection EXCEPT !.maxstack = 1],
                   find_any)

\* intersect_instance_bvh(instance, ray, find_any, non_rigid_frames)
intersect_instance_bvh(scene, inst, ray, find_any) ==
    LET instance_ == scene.instances[inst + 1]
        inv_ray   == transform_ray_inverse(instance_.frame, ray)
        sh == intersect_shape_bvh(scene.shapes[instance_.shape + 1], inv_ray,
                NoIntersection.element, NoIntersection.uv,
                NoIntersection.distance, find_any)
    IN  [NoIntersection EXCEPT !.hit = sh.hit, !.element = sh.element,
                               !.uv = sh.uv, !.distance = sh.distance,
                               !.shapestack = sh.maxstack]

\* ------------------------------------------------------------------------
\* init_bvh
\* ------------------------------------------------------------------------
NoBvh == [nodes |-> <<>>, primitives |-> <<>>, built |-> FALSE]

\* the primitive records of a shape: one per point (no record for a shape
\* without primitives)
ShapePrimitives(shape) ==
    [idx \in 1..Len(shape.points) |->
        LET p == shape.points[idx]
            bbox == point_bounds(shape.positions[p + 1], shape.radius[p + 1])
        IN  [bbox |-> bbox, center2 |-> center2(bbox), primitive |-> idx - 1]]

TreeOf(built) ==
    [nodes |-> built.nodes,
     primitives |-> [i \in 1..Len(built.primitives) |->
                        built.primitives[i].primitive],
     built |-> TRUE]

\* init_bvh(shape, params)
init_shape_bvh(shape) ==
    [shape EXCEPT !.bvh = TreeOf(build_bvh(ShapePrimitives(shape)))]

\* init_bvh_progress without the call at the end
init_bvh_progress_nofinal(scene, progress) ==
    LET n == Len(scene.shapes)
    IN  IF ~progress.callback THEN progress
        ELSE [progress EXCEPT !.calls =
                @ \o [idx \in 1..n |-> <<"build shape bvh", idx - 1, 1 + n>>]
                  \o <<<<"build scene bvh", n, 1 + n>>>>]

\* the progress_cb calls of init_bvh(scene, params, progress_cb): one before
\* each shape is built, one before the scene tree is built, one at the end;
\* none when no callback is given
init_bvh_progress(scene, progress) ==
    LET n == Len(scene.shapes)
    IN  IF ~progress.callback THEN progress
        ELSE [progress EXCEPT !.calls =
                @ \o [idx \in 1..n |-> <<"build shape bvh", idx - 1, 1 + n>>]
                  \o <<<<"build scene bvh", n, 1 + n>>>>
                  \o <<<<"build bvh", n + 1, 1 + n>>>>]

\* the primitive records of the scene: one box per instance
ScenePrimitives(shapes, instances) ==
    [i \in 1..Len(instances) |->
        LET instance == instances[i]
            bvh  == shapes[instance.shape + 1].bvh
            bbox == IF bvh.nodes = <<>> THEN invalidb3f
                    ELSE transform_bbox(instance.frame, bvh.nodes[1].bbox)
        IN  [bbox |-> bbox, center2 |-> center2(bbox), primitive |-> i - 1]]

\* init_bvh(scene, params, progress_cb)
init_scene_bvh(scene) ==
    LET shapes == [s \in 1..Len(scene.shapes) |->
                      init_shape_bvh(scene.shapes[s])]
    IN  [scene EXCEPT !.shapes = shapes,
                      !.bvh = TreeOf(build_bvh(
                                 ScenePrimitives(shapes, scene.instances)))]

\* ------------------------------------------------------------------------
\* Floating-point values of the sampler
\* ------------------------------------------------------------------------
\* A float is <<n, d>>: the fraction n / d in lowest terms with d > 0, or
\* +infinity <<1, 0>>, -infinity <<-1, 0>>, NaN <<0, 0>>.
NaN == <<0, 0>>
PInf == <<1, 0>>
NInf == <<-1, 0>>

Abs(x) == IF x < 0 THEN -x ELSE x

RECURSIVE GCD(_, _)
GCD(a, b) == IF b = 0 THEN a ELSE GCD(b, a % b)

Frac(n, d) ==
    LET g == GCD(Abs(n), Abs(d))
        sg == IF d < 0 THEN -1 ELSE 1
    IN  <<sg * (n \div g), sg * (d \div g)>>

Flt(n) == <<n, 1>>

FIsNaN(a) == a = NaN
FIsInf(a) == a[2] = 0 /\ a[1] # 0
isfinite(a) == a[2] # 0
Sign(x) == IF x > 0 THEN 1 ELSE IF x < 0 THEN -1 ELSE 0

FAdd(a, b) ==
    IF FIsNaN(a) \/ FIsNaN(b) THEN NaN
    ELSE IF FIsInf(a) THEN (IF FIsInf(b) /\ a # b THEN NaN ELSE a)
    ELSE IF FIsInf(b) THEN b
    ELSE Frac(a[1] * b[2] + b[1] * a[2], a[2] * b[2])

FMul(a, b) ==
    IF FIsNaN(a) \/ FIsNaN(b) THEN NaN
    ELSE IF FIsInf(a) \/ FIsInf(b)
    THEN <<Sign(a[1]) * Sign(b[1]), 0>>
    ELSE Frac(a[1] * b[1], a[2] * b[2])

FDiv(a, b) ==
    IF FIsNaN(a) \/ FIsNaN(b) THEN NaN
    ELSE IF FIsInf(b) THEN (IF FIsInf(a) THEN NaN ELSE Flt(0))
    ELSE IF b[1] = 0 THEN <<Sign(a[1]), 0>>
    ELSE IF FIsInf(a) THEN <<Sign(a[1]) * Sign(b[1]), 0>>
    ELSE Frac(a[1] * b[2], a[2] * b[1])

\* a > b; false when either is NaN
FGt(a, b) ==
    IF FIsNaN(a) \/ FIsNaN(b) THEN FALSE
    ELSE IF FIsInf(a) THEN a = PInf /\ b # PInf
    ELSE IF FIsInf(b) THEN b = NInf
    ELSE a[1] * b[2] > b[1] * a[2]

\* max(float, float) and max(vec3f) of yocto_math: (a > b) ? a : b
FMax(a, b) == IF FGt(a, b) THEN a ELSE b
max_xyz(c) == FMax(FMax(c[1], c[2]), c[3])
isfinite_xyz(c) == isfinite(c[1]) /\ isfinite(c[2]) /\ isfinite(c[3])

zero4f == <<Flt(0), Flt(0), Flt(0), Flt(0)>>
V4Add(a, b) == [k \in 1..4 |-> FAdd(a[k], b[k])]
V4Div(a, n) == [k \in 1..4 |-> FDiv(a[k], Flt(n))]

\* ------------------------------------------------------------------------
\* Random number generator (pcg32 at a reduced state width)
\* ------------------------------------------------------------------------
RngModulus == 16

advance_rng(rng) ==
    [rng EXCEPT !.state = (rng.state * 5 + rng.inc) % RngModulus]

\* make_rng(seed, seq)
make_rng(seed, seq) ==
    LET r0 == [state |-> 0, inc |-> (2 * seq + 1) % RngModulus]
        r1 == advance_rng(r0)
        r2 == [r1 EXCEPT !.state = (r1.state + seed) % RngModulus]
    IN  advance_rng(r2)

\* rand1i(rng, n): the drawn value and the advanced generator
rand1i(rng, n) == [value |-> rng.state % n, rng |-> advance_rng(rng)]

\* rand2f(rng): two draws
rand2f(rng) ==
    LET a == rand1i(rng, RngModulus)
        b == rand1i(a.rng, RngModulus)
    IN  [value |-> <<a.value, b.value>>, rng |-> b.rng]

\* ------------------------------------------------------------------------
\* Shaders
\* ------------------------------------------------------------------------
ShaderTypes == {"raytrace", "eyelight", "normal", "texcoord", "color",
                "personal", "toon"}

\* get_shader(params): the shader function, or the runtime_error
get_shader(params) ==
    IF params.shader \in ShaderTypes THEN params.shader ELSE "throw"

\* The colours a shader can return for a camera ray.  The path tracers divide
\* by terms that can vanish, so their results include non-finite components;
\* the other shaders return {0, 0, 0} (alpha 0) on a miss.
PathColours ==
    <<<<Flt(0), Flt(0), Flt(0), Flt(1)>>,
      <<Flt(6), Flt(3), Flt(1), Flt(1)>>,
      <<Flt(5), NaN, Flt(1), Flt(1)>>,
      <<Frac(1, 2), Flt(1), Flt(2), Flt(1)>>,
      <<PInf, Flt(1), Flt(2), Flt(1)>>,
      <<NaN, Flt(0), Flt(0), Flt(1)>>>>

DebugColours ==
    <<<<Flt(0), Flt(0), Flt(0), Flt(0)>>,
      <<Flt(1), Frac(1, 2), Flt(0), Flt(1)>>,
      <<Flt(-1), Flt(-2), Flt(0), Flt(1)>>,
      <<Flt(3), Flt(6), Flt(1), Flt(1)>>>>

\* shader(scene, ray, 0, rng, params): the path tracers draw from the pixel's
\* generator, the other shaders do not touch it
shade(shader, ij, puv, rng) ==
    IF shader \in {"raytrace", "personal"}
    THEN LET d == rand1i(rng, RngModulus)
         IN  [color |-> PathColours[
                          ((ij[1] + 2 * ij[2] + puv[1] + d.value)
                             % Len(PathColours)) + 1],
              rng |-> d.rng]
    ELSE [color |-> DebugColours[
                      ((ij[1] + 2 * ij[2] + puv[1] + puv[2])
                         % Len(DebugColours)) + 1],
          rng |-> rng]

\* ------------------------------------------------------------------------
\* Progressive sampler
\* ------------------------------------------------------------------------
\* (int)round(a * b / c) for non-negative integers
RoundDiv(n, d) == (2 * n + d) \div (2 * d)

ImageSize(camera, params) ==
    IF camera.film[1] > camera.film[2]
    THEN <<params.resolution,
           RoundDiv(params.resolution * camera.film[2], camera.film[1])>>
    ELSE <<RoundDiv(params.resolution * camera.film[1], camera.film[2]),
           params.resolution>>

Pixels(size) == (0..(size[1] - 1)) \X (0..(size[2] - 1))

\* position of pixel ij in the row-major buffers
RasterIndex(size, ij) == ij[2] * size[1] + ij[1]

\* the generators of init_state: one draw of init_rng per pixel in buffer order
RECURSIVE InitRngs(_, _, _, _, _)
InitRngs(size, n, init_rng, seed, rngs) ==
    IF n >= size[1] * size[2] THEN rngs
    ELSE LET d  == rand1i(init_rng, RngModulus)
             ij == <<n % size[1], n \div size[1]>>
         IN  InitRngs(size, n + 1, d.rng, seed,
                      [rngs EXCEPT ![ij] = make_rng(seed, d.value \div 2 + 1)])

\* init_state(state, scene, camera, params)
init_state(camera, params) ==
    LET size == ImageSize(camera, params)
    IN  [size |-> size,
         render |-> [ij \in Pixels(size) |-> zero4f],
         accumulation |-> [ij \in Pixels(size) |-> zero4f],
         samples |-> [ij \in Pixels(size) |-> 0],
         rngs |-> InitRngs(size, 0, make_rng(1301081 % RngModulus, 1),
                    params.seed,
                    [ij \in Pixels(size) |-> [state |-> 0, inc |-> 0]])]

\* SampleOf drawing from the generator of the first pixel instead of the
\* generator of pixel ij
SampleOf_sharedrng(st, ij, params) ==
    LET puv    == rand2f(st.rngs[<<0, 0>>])
        sh     == shade(get_shader(params), ij, puv.value, puv.rng)
        c      == sh.color
        finite == IF ~isfinite_xyz(c) THEN <<c[1], c[2], c[3], Flt(1)>> ELSE c
        m      == max_xyz(finite)
        shaded == IF FGt(m, Flt(params.clamp))
                  THEN LET scale == FDiv(Flt(params.clamp), m)
                       IN  <<FMul(finite[1], scale), FMul(finite[2], scale),
                             FMul(finite[3], scale), finite[4]>>
                  ELSE finite
    IN  [shaded |-> shaded, rng |-> sh.rng]

\* first half of render_sample, up to the post-processed sample: the jitter
\* draw, the shader call, the finite guard and the clamp.  The generator of
\* the pixel is advanced in place.
SampleOf(st, ij, params) ==
    LET puv    == rand2f(st.rngs[ij])
        sh     == shade(get_shader(params), ij, puv.value, puv.rng)
        c      == sh.color
        finite == IF ~isfinite_xyz(c) THEN <<c[1], c[2], c[3], Flt(1)>> ELSE c
        m      == max_xyz(finite)
        shaded == IF FGt(m, Flt(params.clamp))
                  THEN LET scale == FDiv(Flt(params.clamp), m)
                       IN  <<FMul(finite[1], scale), FMul(finite[2], scale),
                             FMul(finite[3], scale), finite[4]>>
                  ELSE finite
    IN  [shaded |-> shaded, rng |-> sh.rng]

ShadeStep(st, ij, params) ==
    [st EXCEPT !.rngs[ij] = SampleOf(st, ij, params).rng]

\* AccumulateStep writing the mean at the transposed index
AccumulateStep_transposed(st, ij, shaded) ==
    LET acc == V4Add(st.accumulation[ij], shaded)
        n   == st.samples[ij] + 1
        ji  == IF <<ij[2], ij[1]>> \in DOMAIN st.render
               THEN <<ij[2], ij[1]>> ELSE ij
    IN  [st EXCEPT !.accumulation[ij] = acc,
                   !.samples[ij] = n,
                   !.render[ji] = V4Div(acc, n)]

\* AccumulateStep that writes the sum in place of the mean
AccumulateStep_sum(st, ij, shaded) ==
    LET acc == V4Add(st.accumulation[ij], shaded)
        n   == st.samples[ij] + 1
    IN  [st EXCEPT !.accumulation[ij] = acc,
                   !.samples[ij] = n,
                   !.render[ij] = acc]

\* second half of render_sample: accumulate, count, write the mean
AccumulateStep(st, ij, shaded) ==
    LET acc == V4Add(st.accumulation[ij], shaded)
        n   == st.samples[ij] + 1
    IN  [st EXCEPT !.accumulation[ij] = acc,
                   !.samples[ij] = n,
                   !.render[ij] = V4Div(acc, n)]

\* render_sample(state, scene, camera, ij, params), for a known shader
render_sample(st, ij, params) ==
    AccumulateStep(ShadeStep(st, ij, params), ij,
                   SampleOf(st, ij, params).shaded)

\* ------------------------------------------------------------------------
\* Textures and the geometry evaluators
\* ------------------------------------------------------------------------
\* An image is [size, pixels], the pixels row by row; the empty image has
\* size <<0, 0>>.  A texture
\* pointer is NullTexture or a raytrace_texture with the buffers hdr and ldr.
EmptyImage == [size |-> <<0, 0>>, pixels |-> <<>>]
NullTexture == [null |-> TRUE]

\* raytrace_texture{}
NewTexture == [null |-> FALSE, hdr |-> EmptyImage, ldr |-> EmptyImage]

ImageEmpty(img) == img.size[1] = 0 \/ img.size[2] = 0

\* set_texture(texture, const image<vec4f>&) that leaves the other buffer
set_texture_hdr_keepldr(texture, img) ==
    [texture EXCEPT !.hdr = img]

\* set_texture(texture, const image<vec4b>&)
set_texture_ldr(texture, img) ==
    [texture EXCEPT !.ldr = img, !.hdr = EmptyImage]

\* set_texture(texture, const image<vec4f>&)
set_texture_hdr(texture, img) ==
    [texture EXCEPT !.ldr = EmptyImage, !.hdr = img]

\* texture_size(texture)
texture_size(texture) ==
    IF ~ImageEmpty(texture.hdr) THEN texture.hdr.size
    ELSE IF ~ImageEmpty(texture.ldr) THEN texture.ldr.size
    ELSE <<0, 0>>

\* byte_to_float on one channel
byte_to_float(b) == Frac(b, 255)

\* srgb_to_rgb on one channel: linear below the knee, a power law above it.
\* The bytes of the model's images are 0 and 255, where the power law gives
\* 0 and 1 exactly.
srgb_to_rgb(a) ==
    IF ~FGt(a, Frac(4045, 100000)) THEN FDiv(a, Frac(1292, 100))
    ELSE IF a = Flt(1) THEN Flt(1)
    ELSE NaN

\* image[ij]: the pixels are stored row by row
ImageAt(img, ij) == img.pixels[ij[2] * img.size[1] + ij[1] + 1]

\* lookup_texture(texture, ij, ldr_as_linear)
lookup_texture(texture, ij, ldr_as_linear) ==
    IF ~ImageEmpty(texture.hdr) THEN ImageAt(texture.hdr, ij)
    ELSE IF ~ImageEmpty(texture.ldr)
    THEN LET px == ImageAt(texture.ldr, ij)
             f  == [k \in 1..4 |-> byte_to_float(px[k])]
         IN  IF ldr_as_linear THEN f
             ELSE <<srgb_to_rgb(f[1]), srgb_to_rgb(f[2]), srgb_to_rgb(f[3]),
                    f[4]>>
    ELSE <<Flt(1), Flt(1), Flt(1), Flt(1)>>

\* (int)x of a finite float: truncation towards zero
TruncInt(a) == IF a[1] >= 0 THEN a[1] \div a[2] ELSE -((-a[1]) \div a[2])

\* fmod(x, 1.0f): what is left of x after its integer part, with the sign of x
fmod1(a) == FAdd(a, Flt(-TruncInt(a)))

\* clamp(x, min, max) = min(max(x, min), max), on integers and on floats
clampi(x, lo, hi) == Min2(Max2(x, lo), hi)
clampf(a, lo, hi) ==
    LET m == IF FGt(lo, a) THEN lo ELSE a
    IN  IF FGt(m, hi) THEN hi ELSE m

\* texel_indices in which the next indices are i + 1 and j + 1 clamped to the
\* last texel in place of the remainders
texel_indices_nowrap(size, s, t) ==
    LET i == clampi(TruncInt(s), 0, size[1] - 1)
        j == clampi(TruncInt(t), 0, size[2] - 1)
    IN  [i |-> i, j |-> j,
         ii |-> IF size[1] = 0 THEN "undefined"
                ELSE clampi(i + 1, 0, size[1] - 1),
         jj |-> IF size[2] = 0 THEN "undefined"
                ELSE clampi(j + 1, 0, size[2] - 1),
         u |-> FAdd(s, Flt(-i)), v |-> FAdd(t, Flt(-j))]

\* the texel indices and residuals of eval_texture for a texture of the given
\* size; the remainders (i + 1) % size are undefined for an empty texture
texel_indices(size, s, t) ==
    LET i == clampi(TruncInt(s), 0, size[1] - 1)
        j == clampi(TruncInt(t), 0, size[2] - 1)
    IN  [i |-> i, j |-> j,
         ii |-> IF size[1] = 0 THEN "undefined" ELSE (i + 1) % size[1],
         jj |-> IF size[2] = 0 THEN "undefined" ELSE (j + 1) % size[2],
         u |-> FAdd(s, Flt(-i)), v |-> FAdd(t, Flt(-j))]

\* fmod(x, 1) * n, moved into [0, n) when negative
wrap_coordinate(x, n, f) == IF FGt(Flt(0), f) THEN FAdd(f, Flt(n)) ELSE f

texel_coordinates(size, uv, clamp_to_edge) ==
    texel_indices(size,
        IF clamp_to_edge
        THEN FMul(clampf(uv[1], Flt(0), Flt(1)), Flt(size[1]))
        ELSE wrap_coordinate(uv[1], size[1],
                             FMul(fmod1(uv[1]), Flt(size[1]))),
        IF clamp_to_edge
        THEN FMul(clampf(uv[2], Flt(0), Flt(1)), Flt(size[2]))
        ELSE wrap_coordinate(uv[2], size[2],
                             FMul(fmod1(uv[2]), Flt(size[2]))))

V4Scale(c, k) == [n \in 1..4 |-> FMul(c[n], k)]

\* eval_texture(texture, uv, ldr_as_linear, no_interpolation, clamp_to_edge).
\* For texture = nullptr, `return {1, 1, 1};` initialises x, y, z of the vec4f
\* and leaves w at 0.  For a texture without pixels the remainder by the size
\* 0 is undefined behaviour.
interpolate_texels(texture, tc, ldr_as_linear, no_interpolation) ==
    LET one_u == FAdd(Flt(1), FMul(Flt(-1), tc.u))
        one_v == FAdd(Flt(1), FMul(Flt(-1), tc.v))
        L(a, b) == lookup_texture(texture, <<a, b>>, ldr_as_linear)
    IN  IF no_interpolation THEN L(tc.i, tc.j)
        ELSE V4Add(
               V4Add(V4Scale(L(tc.i, tc.j), FMul(one_u, one_v)),
                     V4Scale(L(tc.i, tc.jj), FMul(one_u, tc.v))),
               V4Add(V4Scale(L(tc.ii, tc.j), FMul(tc.u, one_v)),
                     V4Scale(L(tc.ii, tc.jj), FMul(tc.u, tc.v))))

eval_texture(texture, uv, ldr_as_linear, no_interpolation, clamp_to_edge) ==
    IF texture.null THEN <<Flt(1), Flt(1), Flt(1), Flt(0)>>
    ELSE IF texture_size(texture)[1] = 0 \/ texture_size(texture)[2] = 0
    THEN "undefined"
    ELSE interpolate_texels(texture,
            texel_coordinates(texture_size(texture), uv, clamp_to_edge),
            ldr_as_linear, no_interpolation)

zero2f == <<0, 0>>

\* normalize(v) for a vector along one coordinate axis
normalize_axis(v) ==
    LET len == Abs(v[1]) + Abs(v[2]) + Abs(v[3])
    IN  IF len = 0 THEN v ELSE <<v[1] \div len, v[2] \div len, v[3] \div len>>

\* eval_position(shape, element, uv); the shapes of the model hold points or
\* no primitive at all, so the triangle and line branches are never taken
eval_position(shape, element, uv) ==
    IF shape.points # <<>>
    THEN shape.positions[shape.points[element + 1] + 1]
    ELSE zero3

\* eval_element_normal(shape, element)
eval_element_normal(shape, element) ==
    IF shape.points # <<>> THEN <<0, 0, 1>> ELSE <<0, 0, 0>>

\* eval_normal(shape, element, uv)
eval_normal(shape, element, uv) ==
    IF shape.normals = <<>> THEN eval_element_normal(shape, element)
    ELSE IF shape.points # <<>>
    THEN normalize_axis(shape.normals[shape.points[element + 1] + 1])
    ELSE zero3

\* eval_texcoord(shape, element, uv)
eval_texcoord(shape, element, uv) ==
    IF shape.texcoords = <<>> THEN uv
    ELSE IF shape.points # <<>>
    THEN shape.texcoords[shape.points[element + 1] + 1]
    ELSE zero2f

\* ------------------------------------------------------------------------
\* Path tracing shaders
\* ------------------------------------------------------------------------
\* Colours are triples of floats.  A ray direction is carried as the signs of
\* its components (a vanishing component counts as positive), which is enough
\* to decide which points of the model a ray meets.
zero3f == <<Flt(0), Flt(0), Flt(0)>>
F3Add(a, b) == [k \in 1..3 |-> FAdd(a[k], b[k])]
F3Mul(a, b) == [k \in 1..3 |-> FMul(a[k], b[k])]
F3Scale(a, s) == [k \in 1..3 |-> FMul(a[k], s)]
xyz(c) == <<c[1], c[2], c[3]>>

\* a < b as the float comparison: false when either side is NaN
FLt(a, b) == FGt(b, a)

\* rand1f(rng): the draw is value / RngModulus, in [0, 1)
rand1f(rng) ==
    LET d == rand1i(rng, RngModulus)
    IN  [value |-> Frac(d.value, RngModulus), rng |-> d.rng]

\* eval_camera(camera, image_uv) for the pixel ij and the jitter puv, the
\* camera frame being the identity and the lens positive: the direction is
\* normalize(film.x (u - 0.5), film.y (0.5 - v), -lens)
eval_camera(camera, size, ij, puv) ==
    LET dx == IF 2 * (RngModulus * ij[1] + puv[1]) >= RngModulus * size[1]
              THEN 1 ELSE -1
        dy == IF 2 * (RngModulus * ij[2] + puv[2]) <= RngModulus * size[2]
              THEN 1 ELSE -1
    IN  MakeRay(zero3, <<dx, dy, -1>>, flt_max)

\* eval_environment(scene, ray): the environments of the model carry no
\* emission texture, so the texture coordinate computed from ray.d at lines
\* 192-195 is never looked up
RECURSIVE EnvironmentLoop(_, _, _, _)
EnvironmentLoop(scene, ray, idx, emission) ==
    IF idx > Len(scene.environments) THEN emission
    ELSE LET e == scene.environments[idx]
             texcoord == <<Flt(0), Flt(0)>>
         IN  EnvironmentLoop(scene, ray, idx + 1,
                F3Add(emission,
                      F3Mul(e.emission,
                            xyz(eval_texture(e.emission_tex, texcoord,
                                             FALSE, FALSE, FALSE)))))

eval_environment(scene, ray) == EnvironmentLoop(scene, ray, 1, zero3f)

\* sample_hemisphere(normal, ruv): the cosine to the normal is ruv.y and the
\* angle around it is 2 pi ruv.x.  Around the z axis the signs of the sample
\* are those of (cos phi, sin phi, z); around a diagonal normal the sample
\* keeps the signs of the normal when the cosine is at least 1/2 and has one
\* component, chosen by the angle, turned otherwise.  dot(normal, incoming)
\* is the cosine.
sample_hemisphere(normal, ruv) ==
    LET cosine == Frac(ruv[2], RngModulus)
        a      == ruv[1]
        quarter == RngModulus \div 4
        turned == (3 * a) \div RngModulus + 1
    IN  IF normal[1] = 0 /\ normal[2] = 0
        THEN [d |-> <<IF a <= quarter \/ a >= 3 * quarter THEN 1 ELSE -1,
                      IF a <= 2 * quarter THEN 1 ELSE -1,
                      IF normal[3] < 0 THEN -1 ELSE 1>>,
              cosine |-> cosine]
        ELSE IF 2 * ruv[2] >= RngModulus
        THEN [d |-> normal, cosine |-> cosine]
        ELSE [d |-> [k \in 1..3 |-> IF k = turned THEN -normal[k]
                                    ELSE normal[k]],
              cosine |-> cosine]

\* fresnel_schlick(specular, normal, outgoing) for normal = outgoing: the
\* cosine is 1 and the result is the specular itself
fresnel_schlick_facing(specular) == specular

\* the texture coordinate as floats; the vertex buffers of the model hold
\* texture coordinates in halves
TexcoordOf(tc) == <<Frac(tc[1], 2), Frac(tc[2], 2)>>

\* what one activation of a recursive shader does before it either returns or
\* calls itself: [kind |-> "return", color, rng], or [kind |-> "call", ray,
\* bounce, rng, through, radiance, weight] where the activation, once the
\* nested call has returned inner, returns inner itself (through) or
\* {radiance + weight * xyz(inner), 1}
ShaderReturn(c3, rng) ==
    [kind |-> "return", color |-> <<c3[1], c3[2], c3[3], Flt(1)>>,
     rng |-> rng]
ShaderCall(position, d, bounce, rng, through, radiance, weight, branch) ==
    [kind |-> "call", ray |-> MakeRay(position, d, flt_max),
     bounce |-> bounce, rng |-> rng, through |-> through,
     radiance |-> radiance, weight |-> weight, branch |-> branch]

\* the chain of tests at lines 641, 654, 668, 677, 695 and 713 taken in
\* another order: the two metal tests come first
raytrace_branch_metalfirst(transmission, thin, roughness, metallic, specular) ==
    IF metallic # Flt(0) /\ roughness = Flt(0) THEN "polished"
    ELSE IF metallic # Flt(0) /\ roughness # Flt(0) THEN "rough"
    ELSE IF transmission # Flt(0) /\ ~thin THEN "refraction"
    ELSE IF transmission # Flt(0) THEN "thin"
    ELSE IF specular # Flt(0) THEN "plastic"
    ELSE "matte"

\* the chain of tests at lines 641, 654, 668, 677, 695 and 713 of
\* shade_raytrace; a float is true when it is not zero
raytrace_branch(transmission, thin, roughness, metallic, specular) ==
    IF transmission # Flt(0) /\ ~thin THEN "refraction"
    ELSE IF transmission # Flt(0) THEN "thin"
    ELSE IF metallic # Flt(0) /\ roughness = Flt(0) THEN "polished"
    ELSE IF metallic # Flt(0) /\ roughness # Flt(0) THEN "rough"
    ELSE IF specular # Flt(0) THEN "plastic"
    ELSE "matte"

\* dot(halfway, -ray.d) of lines 681 and 698 for normal = -ray.d and an
\* incoming direction of the given cosine to the normal: sqrt((1 + cosine) / 2),
\* carried to quarters (3/4 is met at cosine 1/8)
halfway_cosine(cosine) ==
    IF ~FGt(cosine, Frac(1, 8)) THEN Frac(3, 4) ELSE Flt(1)

FPow5(x) == FMul(FMul(FMul(x, x), FMul(x, x)), x)

\* fresnel_schlick(specular, normal, outgoing) of yocto_shading, cosine being
\* dot(normal, outgoing) in [0, 1]
fresnel_schlick(specular, cosine) ==
    IF specular = zero3f THEN zero3f
    ELSE LET grazing == FPow5(FAdd(Flt(1), FMul(Flt(-1), cosine)))
         IN  [k \in 1..3 |->
                FAdd(specular[k],
                     FMul(FAdd(Flt(1), FMul(Flt(-1), specular[k])), grazing))]

\* pi * microfacet_distribution(roughness, normal, halfway) of yocto_shading
\* (ggx), cosine being dot(normal, halfway)
microfacet_distribution_pi(roughness, cosine) ==
    IF ~FGt(cosine, Flt(0)) THEN Flt(0)
    ELSE LET roughness2 == FMul(roughness, roughness)
             cosine2    == FMul(cosine, cosine)
             den == FAdd(FMul(cosine2, roughness2),
                         FAdd(Flt(1), FMul(Flt(-1), cosine2)))
         IN  FDiv(roughness2, FMul(den, den))

\* microfacet_shadowing1 of yocto_shading (ggx) for roughness 1, where
\* sqrt(cosine2 - roughness2 * cosine2 + roughness2) = 1; cosine is
\* dot(normal, direction) >= 0 and cosineh is dot(halfway, direction)
microfacet_shadowing1(cosine, cosineh) ==
    IF ~FGt(FMul(cosine, cosineh), Flt(0)) THEN Flt(0)
    ELSE FDiv(FMul(Flt(2), cosine), FAdd(cosine, Flt(1)))

\* microfacet_shadowing(roughness, normal, halfway, outgoing, incoming) for
\* roughness 1 and normal = outgoing
microfacet_shadowing(cosine, cosineh) ==
    FMul(microfacet_shadowing1(Flt(1), cosineh),
         microfacet_shadowing1(cosine, cosineh))

\* the factor of the nested call at lines 682-689 (rough metal) without the
\* trailing dot(normal, incoming), over pi where pi cancels
rough_metal_weight(color, roughness, cosine) ==
    LET cosineh == halfway_cosine(cosine)
        f == fresnel_schlick(color, cosineh)
        d == microfacet_distribution_pi(roughness, cosineh)
        g == microfacet_shadowing(cosine, cosineh)
    IN  F3Scale(f, FDiv(FMul(FMul(Flt(2), d), g),
                        FMul(Flt(4), FMul(Flt(1), cosine))))

\* the factor of the nested call at lines 699-706 (rough plastic) without
\* the trailing dot(normal, incoming); vec3f{0.04} is {0.04, 0, 0}
rough_plastic_weight(color, roughness, cosine) ==
    LET cosineh == halfway_cosine(cosine)
        f == fresnel_schlick(<<Frac(4, 100), Flt(0), Flt(0)>>, cosineh)[1]
        d == microfacet_distribution_pi(roughness, cosineh)
        g == microfacet_shadowing(cosine, cosineh)
        gloss == FDiv(FMul(FMul(f, d), g),
                      FMul(Flt(4), FMul(Flt(1), cosine)))
    IN  [k \in 1..3 |->
           FMul(Flt(2),
                FAdd(FMul(color[k], FAdd(Flt(1), FMul(Flt(-1), f))), gloss))]

\* shade_raytrace(scene, ray, bounce, rng, params) from line 577 up to its
\* nested call, hit being the raytrace_intersection of line 576.
\* The shapes of the model hold points, so normal = -ray.d, reflect(-ray.d,
\* normal) = -ray.d and refract(-ray.d, normal, 1 / eta) = ray.d; the rough
\* materials of the model have roughness 1.
shade_raytrace(scene, ray, bounce, rng, params, hit) ==
        IF ~hit.hit THEN ShaderReturn(eval_environment(scene, ray), rng)
        ELSE
        LET object   == scene.instances[hit.instance + 1]
            shape    == scene.shapes[object.shape + 1]
            material == scene.materials[object.material + 1]
            position == VAdd(object.frame,
                             eval_position(shape, hit.element, hit.uv))
            normal   == IF shape.points # <<>> THEN VScale(ray.d, -1)
                        ELSE eval_normal(shape, hit.element, hit.uv)
            texcoord == TexcoordOf(eval_texcoord(shape, hit.element, hit.uv))
            tex(t)   == eval_texture(t, texcoord, FALSE, FALSE, FALSE)
            opacity  == FMul(material.opacity, tex(material.opacity_tex)[1])
            pass     == rand1f(rng)
            radiance == material.emission
            color    == F3Mul(material.color,
                              xyz(eval_texture(material.color_tex, texcoord,
                                               FALSE, FALSE, FALSE)))
            transmission == FMul(material.transmission,
                                 tex(material.transmission_tex)[1])
            roughness == FMul(material.roughness,
                              tex(material.roughness_tex)[1])
            metallic == FMul(material.metallic, tex(material.metallic_tex)[1])
            specular == FMul(material.specular, tex(material.specular_tex)[1])
            one3     == <<Flt(1), Flt(1), Flt(1)>>
            fresnel  == rand1f(pass.rng)
            reflects == FLt(fresnel.value,
                            fresnel_schlick_facing(Frac(4, 100)))
            ruv      == rand2f(pass.rng)
            incoming == sample_hemisphere(normal, ruv.value)
            branch   == raytrace_branch(transmission, material.thin,
                                        roughness, metallic, specular)
        IN  IF FGt(pass.value, opacity)
            THEN ShaderCall(position, ray.d, bounce + 1, pass.rng, TRUE,
                            zero3f, one3, "through")
            ELSE IF bounce >= params.bounces
            THEN ShaderReturn(radiance, pass.rng)
            ELSE IF branch \in {"refraction", "thin"}
            THEN IF reflects
                 THEN ShaderCall(position, VScale(ray.d, -1), bounce + 1,
                                 fresnel.rng, FALSE, radiance, one3, branch)
                 ELSE ShaderCall(position, ray.d, bounce + 1, fresnel.rng,
                                 FALSE, radiance, color, branch)
            ELSE IF branch = "polished"
            THEN ShaderCall(position, VScale(ray.d, -1), bounce + 1,
                            pass.rng, FALSE, radiance,
                            fresnel_schlick_facing(color), branch)
            ELSE IF branch = "rough"
            THEN ShaderCall(position, incoming.d, bounce + 1, ruv.rng, FALSE,
                            radiance,
                            F3Scale(rough_metal_weight(
                                        color, FMul(roughness, roughness),
                                        incoming.cosine),
                                    incoming.cosine), branch)
            ELSE IF branch = "plastic"
            THEN ShaderCall(position, incoming.d, bounce + 1, ruv.rng, FALSE,
                            radiance,
                            F3Scale(rough_plastic_weight(
                                        color, FMul(roughness, roughness),
                                        incoming.cosine),
                                    incoming.cosine), branch)
            ELSE ShaderCall(position, incoming.d, bounce + 1, ruv.rng, FALSE,
                            radiance,
                            F3Scale(color, FMul(Flt(2), incoming.cosine)),
                            branch)

\* saturate(vec3f{snow - bottom}, 0, vec3f{scale}).x of shade_personal for a
\* normal along a coordinate axis: max(0, normal.y - 0.2)
snow_amount(normal) ==
    IF 5 * normal[2] - 1 > 0 THEN Frac(5 * normal[2] - 1, 5) ELSE Flt(0)

\* shade_personal(scene, ray, bounce, rng, params) from line 794 up to its
\* nested call, hit being the raytrace_intersection of line 792
shade_personal(scene, ray, bounce, rng, params, hit) ==
        IF ~hit.hit THEN ShaderReturn(eval_environment(scene, ray), rng)
        ELSE
        LET object   == scene.instances[hit.instance + 1]
            shape    == scene.shapes[object.shape + 1]
            material == scene.materials[object.material + 1]
            texcoord == TexcoordOf(eval_texcoord(shape, hit.element, hit.uv))
            position == VAdd(object.frame,
                             eval_position(shape, hit.element, hit.uv))
            normal   == eval_normal(shape, hit.element, hit.uv)
            res      == material.emission
            snow     == snow_amount(normal)
            textured == xyz(eval_texture(material.color_tex, texcoord,
                                         FALSE, FALSE, FALSE))
            color    == IF ~FGt(snow, Flt(1)) /\ ~FLt(snow, Frac(3, 10))
                           /\ ~material.thin
                        THEN textured
                        ELSE IF material.thin THEN textured
                        ELSE material.color
            ruv      == rand2f(rng)
            incoming == sample_hemisphere(normal, ruv.value)
        IN  IF bounce >= params.bounces THEN ShaderReturn(res, rng)
            ELSE ShaderCall(position, incoming.d, bounce + 1, ruv.rng, FALSE,
                            res,
                            F3Scale(color, FMul(Flt(2), incoming.cosine)),
                            "matte")

\* ------------------------------------------------------------------------
\* The other shaders
\* ------------------------------------------------------------------------
FSub(a, b) == FAdd(a, FMul(Flt(-1), b))

\* `return {0, 0, 0};` of a function returning vec4f: x, y and z are given and
\* w is left at 0
ShaderMiss(rng) == [kind |-> "return", color |-> zero4f, rng |-> rng]

\* transform_direction(object->frame, eval_normal(shape, element, uv)): the
\* frames are translations and the normals lie along an axis
shading_normal(scene, hit) ==
    eval_normal(scene.shapes[scene.instances[hit.instance + 1].shape + 1],
                hit.element, hit.uv)

\* dot(normal, -ray.d) for a normal along an axis and a direction carried by
\* its signs: the sign of the component of -ray.d on that axis
facing(normal, d) == Flt(Dot(normal, VScale(d, -1)))

\* shade_eyelight, lines 729-737, hit being the intersection of line 728
shade_eyelight(scene, ray, bounce, rng, params, hit) ==
    IF ~hit.hit THEN ShaderMiss(rng)
    ELSE LET object == scene.instances[hit.instance + 1]
             material == scene.materials[object.material + 1]
         IN  ShaderReturn(F3Scale(material.color,
                                  facing(shading_normal(scene, hit), ray.d)),
                          rng)

\* shade_normal, lines 745-753
shade_normal(scene, ray, bounce, rng, params, hit) ==
    IF ~hit.hit THEN ShaderMiss(rng)
    ELSE LET normal == shading_normal(scene, hit)
         IN  ShaderReturn([k \in 1..3 |-> Frac(normal[k] + 1, 2)], rng)

\* shade_texcoord, lines 762-771
shade_texcoord(scene, ray, bounce, rng, params, hit) ==
    IF ~hit.hit THEN ShaderMiss(rng)
    ELSE LET object == scene.instances[hit.instance + 1]
             shape  == scene.shapes[object.shape + 1]
             texcoord == TexcoordOf(eval_texcoord(shape, hit.element, hit.uv))
         IN  [kind |-> "return",
              color |-> <<fmod1(texcoord[1]), fmod1(texcoord[2]), Flt(0),
                          Flt(1)>>,
              rng |-> rng]

\* shade_color that returns black once the bounce cap is reached
shade_color_capped(scene, ray, bounce, rng, params, hit) ==
    IF ~hit.hit \/ bounce >= params.bounces THEN ShaderMiss(rng)
    ELSE ShaderReturn(
           scene.materials[scene.instances[hit.instance + 1].material + 1]
              .color, rng)

\* shade_color, lines 779-785
shade_color(scene, ray, bounce, rng, params, hit) ==
    IF ~hit.hit THEN ShaderMiss(rng)
    ELSE ShaderReturn(
           scene.materials[scene.instances[hit.instance + 1].material + 1]
              .color, rng)

\* bias(a, bias) and gain(a, gain) of yocto_math, used at line 880
bias(a, b) ==
    FDiv(a, FAdd(FMul(FSub(FDiv(Flt(1), b), Flt(2)), FSub(Flt(1), a)),
                 Flt(1)))
gain(a, g) ==
    IF FLt(a, Frac(1, 2)) THEN FDiv(bias(FMul(a, Flt(2)), g), Flt(2))
    ELSE FAdd(FDiv(bias(FSub(FMul(a, Flt(2)), Flt(1)), FSub(Flt(1), g)),
                   Flt(2)),
              Frac(1, 2))

\* lines 870-876: the band of the intensity
toon_band(intensity) ==
    IF FGt(intensity, Frac(98, 100))
    THEN <<Frac(8, 10), Frac(8, 10), Frac(8, 10)>>
    ELSE IF FGt(intensity, Frac(75, 100))
    THEN <<Frac(7, 10), Frac(7, 10), Frac(7, 10)>>
    ELSE IF FGt(intensity, Frac(1, 2))
    THEN <<Frac(6, 10), Frac(5, 10), Frac(5, 10)>>
    ELSE <<Flt(1), Flt(1), Flt(1)>>

\* lines 878-880: saturation and contrast
toon_contrast(color) ==
    LET g == FDiv(FAdd(FAdd(color[1], color[2]), color[3]), Flt(3))
        boosted == [k \in 1..3 |->
                      FAdd(g, FMul(FSub(color[k], g), Frac(3, 2)))]
    IN  [k \in 1..3 |-> FMul(boosted[k], gain(boosted[k], Frac(4, 10)))]

\* shade_toon, lines 857-882
shade_toon(scene, ray, bounce, rng, params, hit) ==
    IF ~hit.hit THEN ShaderMiss(rng)
    ELSE LET object == scene.instances[hit.instance + 1]
             shape  == scene.shapes[object.shape + 1]
             material == scene.materials[object.material + 1]
             texcoord == TexcoordOf(eval_texcoord(shape, hit.element, hit.uv))
             color == F3Mul(material.color,
                            xyz(eval_texture(material.color_tex, texcoord,
                                             FALSE, FALSE, FALSE)))
             intensity == FMax(Flt(0),
                               facing(shading_normal(scene, hit), ray.d))
         IN  ShaderReturn(toon_contrast(F3Mul(color, toon_band(intensity))),
                          rng)

\* one activation of the shader get_shader selected, hit being the result of
\* the intersect_scene_bvh(scene, ray) every shader begins with
shader_with_isec(shader, scene, ray, bounce, rng, params, hit) ==
    CASE shader = "personal" ->
            shade_personal(scene, ray, bounce, rng, params, hit)
      [] shader = "eyelight" ->
            shade_eyelight(scene, ray, bounce, rng, params, hit)
      [] shader = "normal" ->
            shade_normal(scene, ray, bounce, rng, params, hit)
      [] shader = "texcoord" ->
            shade_texcoord(scene, ray, bounce, rng, params, hit)
      [] shader = "color" ->
            shade_color(scene, ray, bounce, rng, params, hit)
      [] shader = "toon" ->
            shade_toon(scene, ray, bounce, rng, params, hit)
      [] OTHER -> shade_raytrace(scene, ray, bounce, rng, params, hit)

shader_activation(shader, scene, ray, bounce, rng, params) ==
    shader_with_isec(shader, scene, ray, bounce, rng, params,
                     intersect_scene_bvh(scene, ray, FALSE))

\* the value an activation returns once its nested call returned inner
shader_resume(parent, inner) ==
    IF parent.through THEN inner
    ELSE LET c3 == F3Add(parent.radiance, F3Mul(parent.weight, xyz(inner)))
         IN  <<c3[1], c3[2], c3[3], Flt(1)>>

\* PostProcess without the clamp
PostProcess_noclamp(c, params) ==
    IF ~isfinite_xyz(c) THEN <<c[1], c[2], c[3], Flt(1)>> ELSE c

\* render_sample, lines 917-921: the finite guard and the clamp
PostProcess(c, params) ==
    LET finite == IF ~isfinite_xyz(c) THEN <<c[1], c[2], c[3], Flt(1)>> ELSE c
        m      == max_xyz(finite)
    IN  IF FGt(m, Flt(params.clamp))
        THEN LET scale == FDiv(Flt(params.clamp), m)
             IN  <<FMul(finite[1], scale), FMul(finite[2], scale),
                   FMul(finite[3], scale), finite[4]>>
        ELSE finite

\* ------------------------------------------------------------------------
\* Scenes and rays of the model
\* ------------------------------------------------------------------------
\* vertex buffers shared by the shapes: positions and per-vertex radius
VertexPositions == <<<<1, 1, 1>>, <<1, 1, 2>>, <<3, 0, 0>>>>
VertexRadius == <<0, 1, 0>>

\* instance frames (translations)
Frames == {<<0, 0, 0>>, <<1, 1, -1>>}

\* shape 0 holds points, shape 1 has no primitive buffer populated
InstanceChoices ==
    {[shape |-> 0, frame |-> f] : f \in Frames}
        \cup {[shape |-> 1, frame |-> <<0, 0, 0>>]}

MakeShape(points) == [points |-> points, positions |-> VertexPositions,
                      radius |-> VertexRadius, bvh |-> NoBvh]

Rays ==
    {MakeRay(<<0, 0, 0>>, <<1, 1, 1>>, flt_max),
     MakeRay(<<0, 0, 0>>, <<1, 1, 1>>, 4),
     MakeRay(<<5, 5, 5>>, <<-1, -1, -1>>, flt_max),
     MakeRay(<<4, -1, 1>>, <<-1, 1, -1>>, flt_max)}

\* inputs of the sampler
MaxSweeps == 2
Films == {<<2, 1>>, <<1, 1>>}
Resolutions == 0..2
Seeds == {0, 1}
ClampValues == {2, 10}
ShaderChoices == ShaderTypes \cup {"unknown"}

\* inputs of the texture and geometry evaluators
LdrImages ==
    {EmptyImage,
     [size |-> <<1, 1>>, pixels |-> <<<<255, 0, 255, 255>>>>],
     [size |-> <<2, 1>>,
      pixels |-> <<<<0, 0, 0, 255>>, <<255, 255, 255, 0>>>>]}
HdrImages ==
    {EmptyImage,
     [size |-> <<1, 1>>,
      pixels |-> <<<<Frac(1, 2), Flt(2), Flt(0), Flt(1)>>>>],
     [size |-> <<1, 2>>,
      pixels |-> <<<<Flt(4), Flt(0), Flt(0), Flt(1)>>,
                   <<Flt(0), Flt(8), Flt(0), Flt(1)>>>>]}
TexUVs == {<<Flt(0), Flt(0)>>, <<Frac(1, 2), Frac(3, 4)>>,
           <<Frac(-1, 4), Frac(5, 4)>>, <<Flt(1), Flt(1)>>}
ShapeUVs == {<<0, 0>>, <<1, 2>>}
PointLists == {<<>>, <<0>>, <<2, 1>>}
NormalBuffers == {<<>>, <<<<0, 0, 2>>, <<0, -1, 0>>, <<1, 0, 0>>>>}
TexcoordBuffers == {<<>>, <<<<1, 0>>, <<0, 1>>, <<1, 1>>>>}

\* inputs of the queries on deep trees: n points at 3^(k - ExpOffset),
\* k = 1..n, on the diagonal, which are floats for n <= 2 * ExpOffset - 1; a
\* ray from behind all of them, from the point <<-1, -1, -1>> (smaller than
\* every 3^e), towards them or away from them, and a ray from beyond all of
\* them back towards them
node_stack_size == 128
ExpOffset == 80
MaxChain == 132
ChainSizes == {0, 4, 5, 9, 40, 131, MaxChain}
ChainPositions(n) ==
    [k \in 1..n |-> <<k - ExpOffset, k - ExpOffset, k - ExpOffset>>]
ChainOrders(n) ==
    {[k \in 1..n |-> k - 1], [k \in 1..n |-> n - k],
     [k \in 1..n |-> (13 * k) % n],
     \* every point at the same vertex, and the points in coincident pairs
     [k \in 1..n |-> 0], [k \in 1..n |-> (k - 1) \div 2]}
ChainShape(points) ==
    [points |-> points, positions |-> ChainPositions(Len(points)),
     radius |-> [k \in 1..Len(points) |-> 0], normals |-> <<>>,
     texcoords |-> <<>>, bvh |-> NoBvh]
Behind == <<-ExpOffset, -ExpOffset, -ExpOffset>>
Beyond == <<MaxChain + 1, MaxChain + 1, MaxChain + 1>>
ChainRays ==
    {MakeRay(Behind, <<1, 1, 1>>, flt_max),
     MakeRay(Behind, <<-1, -1, -1>>, flt_max),
     MakeRay(Beyond, <<-1, -1, -1>>, flt_max)}

\* inputs of the path tracers
MaxBounces == 2
BlackMaterial ==
    [emission |-> zero3f, color |-> zero3f, opacity |-> Flt(1),
     transmission |-> Flt(0), thin |-> FALSE, metallic |-> Flt(0),
     roughness |-> Flt(0), specular |-> Flt(0),
     emission_tex |-> NullTexture, color_tex |-> NullTexture,
     opacity_tex |-> NullTexture, transmission_tex |-> NullTexture,
     roughness_tex |-> NullTexture, metallic_tex |-> NullTexture,
     specular_tex |-> NullTexture]

\* matte emitter, fully transparent, thin glass of opacity 1/2, polished
\* metal, solid glass
TraceMaterials ==
    <<[BlackMaterial EXCEPT !.emission = <<Flt(1), Flt(1), Flt(0)>>,
                            !.color = <<Frac(1, 2), Flt(1), Flt(1)>>],
      [BlackMaterial EXCEPT !.emission = <<Flt(0), Flt(0), Flt(4)>>,
                            !.color = <<Flt(1), Flt(1), Flt(1)>>,
                            !.opacity = Flt(0)],
      [BlackMaterial EXCEPT !.color = <<Flt(1), Frac(1, 2), Flt(1)>>,
                            !.opacity = Frac(1, 2),
                            !.transmission = Flt(1), !.thin = TRUE],
      [BlackMaterial EXCEPT !.emission = <<Flt(0), Flt(1), Flt(0)>>,
                            !.color = <<Flt(1), Flt(1), Frac(1, 2)>>,
                            !.metallic = Flt(1)],
      [BlackMaterial EXCEPT !.color = <<Frac(1, 2), Frac(1, 2), Flt(1)>>,
                            !.transmission = Flt(1)]>>

\* the camera sits at the origin and looks down the negative z axis; the
\* frames put the point <<1, 1, 1>> of the shape on the ray towards
\* <<1, 1, -1>> and behind the first point as seen from it
TraceFrames == {<<0, 0, -2>>, <<1, 1, -3>>, <<-1, -1, -3>>}

TraceShape == [points |-> <<0>>, positions |-> VertexPositions,
               radius |-> VertexRadius, normals |-> <<>>,
               texcoords |-> <<>>, bvh |-> NoBvh]
NoShape == [points |-> <<>>, positions |-> <<>>, radius |-> <<>>,
            normals |-> <<>>, texcoords |-> <<>>, bvh |-> NoBvh]

TraceInstances ==
    [shape : {0}, frame : TraceFrames,
     material : 0..(Len(TraceMaterials) - 1)]

MakeEnvironment(emission) ==
    [emission |-> emission, emission_tex |-> NullTexture]
TraceEnvironments ==
    {<<>>, <<MakeEnvironment(<<Flt(1), Frac(1, 2), Flt(0)>>)>>,
     <<MakeEnvironment(<<Flt(20), Flt(4), Flt(0)>>)>>}
TraceShaders == {"raytrace", "personal", "unknown"}

\* an image of one pixel, and an image of two pixels side by side sampled in
\* parallel
TraceViews == {[film |-> <<1, 1>>, resolution |-> 1, noparallel |-> TRUE],
               [film |-> <<2, 1>>, resolution |-> 2, noparallel |-> FALSE]}

\* scenes without geometry under every environment, and scenes of one or two
\* instances, the first of them on the camera ray, under the dim environment
TraceScenes ==
    {[shapes |-> shapes, instances |-> <<>>, materials |-> TraceMaterials,
      environments |-> environments, bvh |-> NoBvh] :
        shapes \in {<<>>, <<TraceShape>>, <<TraceShape, NoShape>>},
        environments \in TraceEnvironments}
    \cup
    {[shapes |-> <<TraceShape>>, instances |-> instances,
      materials |-> TraceMaterials,
      environments |-> <<MakeEnvironment(<<Flt(1), Frac(1, 2), Flt(0)>>)>>,
      bvh |-> NoBvh] :
        instances \in
          {i \in UNION {[1..n -> TraceInstances] : n \in 1..2} :
              /\ i[1].frame = <<0, 0, -2>>
              /\ Len(i) = 2 => i[2].frame # <<0, 0, -2>>}}

\* materials that meet several tests of shade_raytrace at once: solid glass
\* that is also metallic and specular, thin glass that is also polished metal,
\* polished metal that is also specular, rough white metal that is also
\* specular, rough plastic, a rough matte emitter, and a matte emitter of
\* opacity 1/2
BranchMaterials ==
    <<[BlackMaterial EXCEPT !.color = <<Frac(1, 2), Frac(1, 2), Flt(1)>>,
                            !.transmission = Flt(1), !.metallic = Flt(1),
                            !.roughness = Flt(1), !.specular = Flt(1)],
      [BlackMaterial EXCEPT !.color = <<Flt(1), Frac(1, 2), Flt(1)>>,
                            !.transmission = Flt(1), !.thin = TRUE,
                            !.metallic = Flt(1)],
      [BlackMaterial EXCEPT !.emission = <<Flt(0), Flt(1), Flt(0)>>,
                            !.color = <<Flt(1), Flt(1), Frac(1, 2)>>,
                            !.metallic = Flt(1), !.specular = Flt(1)],
      [BlackMaterial EXCEPT !.color = <<Flt(1), Flt(1), Flt(1)>>,
                            !.metallic = Flt(1), !.roughness = Flt(1),
                            !.specular = Flt(1)],
      [BlackMaterial EXCEPT !.color = <<Frac(1, 2), Flt(1), Flt(0)>>,
                            !.roughness = Flt(1), !.specular = Flt(1)],
      [BlackMaterial EXCEPT !.emission = <<Flt(1), Flt(1), Flt(0)>>,
                            !.color = <<Frac(1, 2), Flt(1), Flt(1)>>,
                            !.roughness = Flt(1)],
      [BlackMaterial EXCEPT !.emission = <<Flt(0), Flt(0), Flt(4)>>,
                            !.color = <<Flt(1), Flt(1), Flt(1)>>,
                            !.opacity = Frac(1, 2)]>>

\* one instance on the camera ray, and possibly a second one behind it
BranchScenes ==
    {[shapes |-> <<TraceShape>>, instances |-> instances,
      materials |-> BranchMaterials,
      environments |-> <<MakeEnvironment(<<Flt(1), Frac(1, 2), Flt(0)>>)>>,
      bvh |-> NoBvh] :
        instances \in
          {i \in UNION {[1..n -> [shape : {0}, frame : TraceFrames,
                                  material : 0..(Len(BranchMaterials) - 1)]] :
                           n \in 1..2} :
              /\ i[1].frame = <<0, 0, -2>>
              /\ Len(i) = 2 => i[2].frame = <<1, 1, -3>>}}

\* inputs of the other shaders: a point whose vertex carries a normal or
\* none, and a texture coordinate (in halves) or none
ShaderNormals == {<<>>, <<<<0, 0, 2>>, <<0, -1, 0>>, <<1, 0, 0>>>>,
                  <<<<0, 3, 0>>, <<0, -1, 0>>, <<1, 0, 0>>>>}
ShaderTexcoords == {<<>>, <<<<1, 3>>, <<0, 0>>, <<0, 0>>>>,
                    <<<<-1, 2>>, <<0, 0>>, <<0, 0>>>>,
                    <<<<-3, 5>>, <<0, 0>>, <<0, 0>>>>}
ShaderScenes ==
    {[shapes |-> <<[TraceShape EXCEPT !.normals = normals,
                                      !.texcoords = texcoords]>>,
      instances |-> instances, materials |-> TraceMaterials,
      environments |-> <<MakeEnvironment(<<Flt(1), Frac(1, 2), Flt(0)>>)>>,
      bvh |-> NoBvh] :
        normals \in ShaderNormals, texcoords \in ShaderTexcoords,
        instances \in
          {<<>>} \cup
          {<<[shape |-> 0, frame |-> <<0, 0, -2>>, material |-> m]>> :
              m \in {0, 3}}}

VARIABLES
    scene,      \* raytrace_scene: shapes, instances, bvh
    isec,       \* the query in progress and its raytrace_intersection
    progress,   \* the progress callback given to init_bvh and its calls
    camera,     \* raytrace_camera
    rparams,    \* raytrace_params
    rstate,     \* raytrace_state: render, accumulation, samples, rngs
    rpc,        \* position of the caller: new, ready, sweep, failed
    tasks,      \* per pixel task of the sweep in progress: position and local
    nsweeps,    \* render_samples calls that returned
    error,      \* a runtime_error was thrown
    sim         \* particle_scene, particle_params and the calls made on them

vars == <<scene, isec, progress, camera, rparams, rstate, rpc, tasks, nsweeps,
          error, sim>>

bvhvars == <<scene, isec, progress>>
rendervars == <<camera, rparams, rstate, rpc, tasks, nsweeps, error>>

NoQuery == [kind |-> "none"]

\* no particle scene was made
NoSimulation == [pc |-> "none"]

\* a progress callback was given and has not been called
NoProgress == [callback |-> TRUE, calls |-> <<>>]

\* raytrace_state{}
EmptyState == [size |-> <<0, 0>>, render |-> <<>>, accumulation |-> <<>>,
               samples |-> <<>>, rngs |-> <<>>]

DefaultCamera == [film |-> <<1, 1>>]
DefaultParams == [shader |-> "raytrace", clamp |-> 10, seed |-> 0,
                  noparallel |-> FALSE, resolution |-> 0]

RenderIdle ==
    /\ camera = DefaultCamera
    /\ rparams = DefaultParams
    /\ rstate = EmptyState
    /\ rpc = "new"
    /\ tasks = <<>>
    /\ nsweeps = 0
    /\ error = FALSE

EmptyScene == [shapes |-> <<>>, instances |-> <<>>, bvh |-> NoBvh]

Init ==
    /\ sim = NoSimulation
    /\ \E a \in 0..MaxPrims :
       \E b \in 0..Min2(MaxInst, MaxTotal - a) :
       \E points \in [1..a -> 0..(Len(VertexPositions) - 1)],
          instances \in [1..b -> InstanceChoices] :
          scene = [shapes |-> <<MakeShape(points), MakeShape(<<>>)>>,
                   instances |-> instances, bvh |-> NoBvh]
    /\ isec = NoQuery
    /\ progress = NoProgress
    /\ RenderIdle

\* init_bvh(scene, params, progress_cb); the application calls it from the
\* thread that calls render_samples, so never while a sweep runs
InitBvh ==
    /\ ~scene.bvh.built
    /\ rpc # "sweep"
    /\ scene' = init_scene_bvh(scene)
    /\ progress' = init_bvh_progress(scene, progress)
    /\ isec' = NoQuery
    /\ UNCHANGED <<rendervars, sim>>

\* intersect_scene_bvh(scene, ray, find_any, non_rigid_frames)
IntersectScene ==
    /\ scene.bvh.built
    /\ isec = NoQuery
    /\ \E ray \in Rays, find_any \in BOOLEAN :
          isec' = [kind |-> "scene", ray |-> ray, find_any |-> find_any,
                   result |-> intersect_scene_bvh(scene, ray, find_any)]
    /\ UNCHANGED <<scene, progress, rendervars, sim>>

\* intersect_instance_bvh(instance, ray, find_any, non_rigid_frames)
IntersectInstance ==
    /\ scene.bvh.built
    /\ isec = NoQuery
    /\ \E inst \in 0..(Len(scene.instances) - 1), ray \in Rays,
          find_any \in BOOLEAN :
          isec' = [kind |-> "instance", instance |-> inst, ray |-> ray,
                   find_any |-> find_any,
                   result |-> intersect_instance_bvh(scene, inst, ray,
                                                     find_any)]
    /\ UNCHANGED <<scene, progress, rendervars, sim>>

\* the caller takes the raytrace_intersection and goes on
Return ==
    /\ isec # NoQuery
    /\ isec' = NoQuery
    /\ UNCHANGED <<scene, progress, rendervars, sim>>

Next == InitBvh \/ IntersectScene \/ IntersectInstance \/ Return

Spec == Init /\ [][Next]_vars

\* ------------------------------------------------------------------------
\* The sampler as a state machine
\* ------------------------------------------------------------------------
InitRender ==
    /\ sim = NoSimulation
    /\ scene = EmptyScene
    /\ isec = NoQuery
    /\ progress = NoProgress
    /\ camera \in [film : Films]
    /\ rparams \in [shader : ShaderChoices, clamp : ClampValues, seed : Seeds,
                    noparallel : BOOLEAN, resolution : Resolutions]
    /\ rstate = EmptyState
    /\ rpc = "new"
    /\ tasks = <<>>
    /\ nsweeps = 0
    /\ error = FALSE

\* init_state(state, scene, camera, params)
InitState ==
    /\ rpc = "new"
    /\ rstate' = init_state(camera, rparams)
    /\ rpc' = "ready"
    /\ UNCHANGED <<bvhvars, sim, camera, rparams, tasks, nsweeps, error>>

\* render_samples is entered: one task per pixel
BeginSweep ==
    /\ rpc = "ready"
    /\ nsweeps < MaxSweeps
    /\ rpc' = "sweep"
    /\ tasks' = [ij \in Pixels(rstate.size) |->
                    [pc |-> "todo", shaded |-> zero4f]]
    /\ UNCHANGED <<bvhvars, sim, camera, rparams, rstate, nsweeps, error>>

\* the pixels a sweep may start next: in the sequential loop the first pixel in
\* row-then-column order that was not started (none once an exception left the
\* loop), in parallel_for any pixel that was not started
Startable(ij) ==
    /\ tasks[ij].pc = "todo"
    /\ rparams.noparallel =>
          /\ ~error
          /\ \A other \in DOMAIN tasks :
                RasterIndex(rstate.size, other) < RasterIndex(rstate.size, ij)
                   => tasks[other].pc = "done"

\* render_sample, lines 911-921: get_shader throws for an unknown shader
\* before anything is read or written; otherwise the sample is computed
Shade(ij) ==
    /\ rpc = "sweep"
    /\ Startable(ij)
    /\ \/ /\ get_shader(rparams) = "throw"
          /\ tasks' = [tasks EXCEPT ![ij].pc = "failed"]
          /\ error' = TRUE
          /\ UNCHANGED rstate
       \/ /\ get_shader(rparams) # "throw"
          /\ rstate' = ShadeStep(rstate, ij, rparams)
          /\ tasks' = [tasks EXCEPT ![ij] =
                          [pc |-> "shaded",
                           shaded |-> SampleOf(rstate, ij, rparams).shaded]]
          /\ UNCHANGED error
    /\ UNCHANGED <<bvhvars, sim, camera, rparams, rpc, nsweeps>>

\* render_sample, lines 922-924
Accumulate(ij) ==
    /\ rpc = "sweep"
    /\ tasks[ij].pc = "shaded"
    /\ rstate' = AccumulateStep(rstate, ij, tasks[ij].shaded)
    /\ tasks' = [tasks EXCEPT ![ij].pc = "done"]
    /\ UNCHANGED <<bvhvars, sim, camera, rparams, rpc, nsweeps, error>>

\* EndSweep that lets render_samples return once the first pixel was sampled
EndSweep_early ==
    /\ rpc = "sweep"
    /\ ~error
    /\ \E ij \in DOMAIN tasks :
          /\ tasks[ij].pc = "done"
          /\ \A other \in DOMAIN tasks : tasks[other].pc \in {"todo", "done"}
    /\ rpc' = "ready"
    /\ nsweeps' = nsweeps + 1
    /\ tasks' = <<>>
    /\ UNCHANGED <<bvhvars, sim, camera, rparams, rstate, error>>

\* render_samples returns: every pixel was sampled
EndSweep ==
    /\ rpc = "sweep"
    /\ ~error
    /\ \A ij \in DOMAIN tasks : tasks[ij].pc = "done"
    /\ rpc' = "ready"
    /\ nsweeps' = nsweeps + 1
    /\ tasks' = <<>>
    /\ UNCHANGED <<bvhvars, sim, camera, rparams, rstate, error>>

\* render_samples is left by the exception once no sample is in progress
FailSweep ==
    /\ rpc = "sweep"
    /\ error
    /\ \A ij \in DOMAIN tasks : tasks[ij].pc # "shaded"
    /\ rpc' = "failed"
    /\ tasks' = <<>>
    /\ UNCHANGED <<bvhvars, sim, camera, rparams, rstate, nsweeps, error>>

NextRender ==
    \/ InitState
    \/ BeginSweep
    \/ \E ij \in DOMAIN tasks : Shade(ij)
    \/ \E ij \in DOMAIN tasks : Accumulate(ij)
    \/ EndSweep
    \/ FailSweep

SpecRender == InitRender /\ [][NextRender]_vars

\* ------------------------------------------------------------------------
\* Textures and the geometry evaluators as a state machine
\* ------------------------------------------------------------------------
InitEval ==
    /\ sim = NoSimulation
    /\ \E points \in PointLists, normals \in NormalBuffers,
          texcoords \in TexcoordBuffers :
          scene = [shapes |-> <<[points |-> points,
                                 positions |-> VertexPositions,
                                 radius |-> VertexRadius,
                                 normals |-> normals,
                                 texcoords |-> texcoords,
                                 bvh |-> NoBvh]>>,
                   instances |-> <<>>, bvh |-> NoBvh,
                   textures |-> <<NewTexture>>]
    /\ isec = NoQuery
    /\ progress = NoProgress
    /\ RenderIdle

\* set_texture(texture, const image<vec4b>& img)
SetTextureLdr ==
    /\ isec = NoQuery
    /\ \E img \in LdrImages :
          /\ scene' = [scene EXCEPT
                          !.textures[1] = set_texture_ldr(@, img)]
          /\ isec' = [kind |-> "set_texture", format |-> "ldr", img |-> img]
    /\ UNCHANGED <<progress, rendervars, sim>>

\* set_texture(texture, const image<vec4f>& img)
SetTextureHdr ==
    /\ isec = NoQuery
    /\ \E img \in HdrImages :
          /\ scene' = [scene EXCEPT
                          !.textures[1] = set_texture_hdr(@, img)]
          /\ isec' = [kind |-> "set_texture", format |-> "hdr", img |-> img]
    /\ UNCHANGED <<progress, rendervars, sim>>

\* eval_texture on no texture or on the texture of the scene
EvalTexture ==
    /\ isec = NoQuery
    /\ \E texture \in {NullTexture, scene.textures[1]}, uv \in TexUVs,
          ldr_as_linear \in BOOLEAN, no_interpolation \in BOOLEAN,
          clamp_to_edge \in BOOLEAN :
          isec' = [kind |-> "eval_texture", texture |-> texture, uv |-> uv,
                   ldr_as_linear |-> ldr_as_linear,
                   no_interpolation |-> no_interpolation,
                   clamp_to_edge |-> clamp_to_edge,
                   result |-> eval_texture(texture, uv, ldr_as_linear,
                                no_interpolation, clamp_to_edge)]
    /\ UNCHANGED <<scene, progress, rendervars, sim>>

\* eval_position, eval_normal and eval_texcoord on the shape of the scene
EvalShape ==
    /\ isec = NoQuery
    /\ \E element \in 0..Max2(Len(scene.shapes[1].points) - 1, 1),
          uv \in ShapeUVs :
          /\ scene.shapes[1].points # <<>> =>
                element < Len(scene.shapes[1].points)
          /\ isec' = [kind |-> "eval_shape", element |-> element, uv |-> uv,
                      position |-> eval_position(scene.shapes[1], element, uv),
                      normal |-> eval_normal(scene.shapes[1], element, uv),
                      texcoord |-> eval_texcoord(scene.shapes[1], element,
                                                 uv)]
    /\ UNCHANGED <<scene, progress, rendervars, sim>>

NextEval ==
    \/ SetTextureLdr
    \/ SetTextureHdr
    \/ EvalTexture
    \/ EvalShape
    \/ Return

SpecEval == InitEval /\ [][NextEval]_vars

\* ------------------------------------------------------------------------
\* The path tracers as a state machine
\* ------------------------------------------------------------------------
InitTrace ==
    /\ sim = NoSimulation
    /\ scene \in TraceScenes
    /\ isec = NoQuery
    /\ progress \in [callback : BOOLEAN, calls : {<<>>}]
    /\ \E view \in TraceViews :
          /\ camera = [film |-> view.film]
          /\ rparams \in [shader : TraceShaders, clamp : ClampValues,
                          seed : Seeds, noparallel : {view.noparallel},
                          resolution : {view.resolution},
                          bounces : 0..MaxBounces]
    /\ rstate = EmptyState
    /\ rpc = "new"
    /\ tasks = <<>>
    /\ nsweeps = 0
    /\ error = FALSE

\* render_sample, lines 911-916: get_shader, the jitter draw, the camera ray
\* and the entry into the shader at bounce 0
TraceStart(ij) ==
    /\ rpc = "sweep"
    /\ Startable(ij)
    /\ \/ /\ get_shader(rparams) = "throw"
          /\ tasks' = [tasks EXCEPT ![ij].pc = "failed"]
          /\ error' = TRUE
          /\ UNCHANGED rstate
       \/ /\ get_shader(rparams) # "throw"
          /\ scene.bvh.built
          /\ LET puv == rand2f(rstate.rngs[ij])
                 ray == eval_camera(camera, rstate.size, ij, puv.value)
             IN  /\ rstate' = [rstate EXCEPT !.rngs[ij] = puv.rng]
                 /\ tasks' = [tasks EXCEPT ![ij] =
                       [pc |-> "tracing", shaded |-> zero4f, stack |-> <<>>,
                        call |-> [ray |-> ray, bounce |-> 0],
                        returning |-> FALSE, ret |-> zero4f]]
          /\ UNCHANGED error
    /\ UNCHANGED <<bvhvars, sim, camera, rparams, rpc, nsweeps>>

\* TraceCall in which an activation that returns clears the environments of
\* the scene
TraceCall_dropenvironments(ij) ==
    /\ rpc = "sweep"
    /\ tasks[ij].pc = "tracing"
    /\ ~tasks[ij].returning
    /\ \E t \in {tasks[ij]} :
       \E r \in {shader_activation(get_shader(rparams), scene, t.call.ray,
                                   t.call.bounce, rstate.rngs[ij], rparams)} :
           /\ rstate' = [rstate EXCEPT !.rngs[ij] = r.rng]
           /\ tasks' = [tasks EXCEPT ![ij] =
                 IF r.kind = "return"
                 THEN [t EXCEPT !.returning = TRUE, !.ret = r.color]
                 ELSE [t EXCEPT
                         !.stack = Append(@, [through |-> r.through,
                                              radiance |-> r.radiance,
                                              weight |-> r.weight,
                                              bounce |-> t.call.bounce,
                                              branch |-> r.branch]),
                         !.call = [ray |-> r.ray, bounce |-> r.bounce]]]
    /\ scene' = IF tasks'[ij].returning
                THEN [scene EXCEPT !.environments = <<>>] ELSE scene
    /\ UNCHANGED <<isec, progress, sim, camera, rparams, rpc, nsweeps, error>>

\* one activation of the shader runs up to its return or its nested call; the
\* activations that wait for a nested call are kept on the stack of the task
TraceCall(ij) ==
    /\ rpc = "sweep"
    /\ tasks[ij].pc = "tracing"
    /\ ~tasks[ij].returning
    /\ \E t \in {tasks[ij]} :
       \E r \in {shader_activation(get_shader(rparams), scene, t.call.ray,
                                   t.call.bounce, rstate.rngs[ij], rparams)} :
           /\ rstate' = [rstate EXCEPT !.rngs[ij] = r.rng]
           /\ tasks' = [tasks EXCEPT ![ij] =
                 IF r.kind = "return"
                 THEN [t EXCEPT !.returning = TRUE, !.ret = r.color]
                 ELSE [t EXCEPT
                         !.stack = Append(@, [through |-> r.through,
                                              radiance |-> r.radiance,
                                              weight |-> r.weight,
                                              bounce |-> t.call.bounce,
                                              branch |-> r.branch]),
                         !.call = [ray |-> r.ray, bounce |-> r.bounce]]]
    /\ UNCHANGED <<bvhvars, sim, camera, rparams, rpc, nsweeps, error>>

\* a nested call returns into the activation that made it; the return of the
\* activation at bounce 0 is post-processed by render_sample, lines 917-921
TraceReturn(ij) ==
    /\ rpc = "sweep"
    /\ tasks[ij].pc = "tracing"
    /\ tasks[ij].returning
    /\ LET t == tasks[ij]
           n == Len(t.stack)
       IN  tasks' = [tasks EXCEPT ![ij] =
              IF n = 0
              THEN [t EXCEPT !.pc = "shaded",
                             !.shaded = PostProcess(t.ret, rparams)]
              ELSE [t EXCEPT !.stack = SubSeq(@, 1, n - 1),
                             !.call = [ray |-> t.call.ray,
                                       bounce |-> t.stack[n].bounce],
                             !.ret = shader_resume(t.stack[n], t.ret)]]
    /\ UNCHANGED <<bvhvars, sim, camera, rparams, rstate, rpc, nsweeps, error>>

NextTrace ==
    \/ InitBvh
    \/ InitState
    \/ BeginSweep
    \/ \E ij \in DOMAIN tasks : TraceStart(ij)
    \/ \E ij \in DOMAIN tasks : TraceCall(ij)
    \/ \E ij \in DOMAIN tasks : TraceReturn(ij)
    \/ \E ij \in DOMAIN tasks : Accumulate(ij)
    \/ EndSweep
    \/ FailSweep

SpecTrace == InitTrace /\ [][NextTrace]_vars

\* ------------------------------------------------------------------------
\* The path tracer over materials that meet several branch tests
\* ------------------------------------------------------------------------
InitBranch ==
    /\ sim = NoSimulation
    /\ scene \in BranchScenes
    /\ isec = NoQuery
    /\ progress = NoProgress
    /\ camera = [film |-> <<1, 1>>]
    /\ rparams \in [shader : {"raytrace", "unknown"}, clamp : {10},
                    seed : Seeds, noparallel : {TRUE}, resolution : {1},
                    bounces : 0..MaxBounces]
    /\ rstate = EmptyState
    /\ rpc = "new"
    /\ tasks = <<>>
    /\ nsweeps = 0
    /\ error = FALSE

SpecBranch == InitBranch /\ [][NextTrace]_vars

\* ------------------------------------------------------------------------
\* Every shader as a state machine
\* ------------------------------------------------------------------------
InitShaders ==
    /\ sim = NoSimulation
    /\ scene \in ShaderScenes
    /\ isec = NoQuery
    /\ progress = NoProgress
    /\ camera = [film |-> <<1, 1>>]
    /\ rparams \in [shader : ShaderTypes \cup {"unknown"}, clamp : {10},
                    seed : Seeds, noparallel : {TRUE}, resolution : {1},
                    bounces : 0..MaxBounces]
    /\ rstate = EmptyState
    /\ rpc = "new"
    /\ tasks = <<>>
    /\ nsweeps = 0
    /\ error = FALSE

SpecShaders == InitShaders /\ [][NextTrace]_vars

\* ------------------------------------------------------------------------
\* Queries on deep trees as a state machine
\* ------------------------------------------------------------------------
InitDeep ==
    /\ sim = NoSimulation
    /\ \E n \in ChainSizes : \E points \in ChainOrders(n) :
          scene = [shapes |-> <<ChainShape(points)>>,
                   instances |-> <<[shape |-> 0, frame |-> zero3]>>,
                   bvh |-> NoBvh]
    /\ isec = NoQuery
    /\ progress = NoProgress
    /\ RenderIdle

\* init_bvh(scene, params, progress_cb) reaches init_bvh(shape, params): the
\* primitive records are made and build_bvh pushes the root on its queue
BuildStart ==
    /\ ~scene.bvh.built
    /\ ~scene.shapes[1].bvh.built
    /\ "queue" \notin DOMAIN scene.shapes[1].bvh
    /\ scene' = [scene EXCEPT !.shapes[1].bvh =
                    [nodes |-> <<EmptyNode>>,
                     primitives |-> ShapePrimitives(scene.shapes[1]),
                     queue |-> <<<<0, 0, Len(scene.shapes[1].points)>>>>,
                     built |-> FALSE]]
    /\ UNCHANGED <<isec, progress, rendervars, sim>>

\* one iteration of the while loop of build_bvh
BuildStep ==
    /\ ~scene.shapes[1].bvh.built
    /\ "queue" \in DOMAIN scene.shapes[1].bvh
    /\ scene.shapes[1].bvh.queue # <<>>
    /\ \E b \in {scene.shapes[1].bvh} :
       \E st \in {exp_build_step(b.nodes, b.primitives, b.queue)} :
          scene' = [scene EXCEPT !.shapes[1].bvh =
                       [nodes |-> st.nodes, primitives |-> st.prims,
                        queue |-> st.queue, built |-> FALSE]]
    /\ UNCHANGED <<isec, progress, rendervars, sim>>

\* the queue is empty: the shape keeps the nodes and the primitive indices,
\* and init_bvh(scene) builds the tree of the one instance and returns
BuildFinish ==
    /\ ~scene.shapes[1].bvh.built
    /\ "queue" \in DOMAIN scene.shapes[1].bvh
    /\ scene.shapes[1].bvh.queue = <<>>
    /\ \E shape \in {[scene.shapes[1] EXCEPT !.bvh = TreeOf(@)]} :
          scene' = [scene EXCEPT
                      !.shapes = <<shape>>,
                      !.bvh = TreeOf(build_bvh(
                                 ScenePrimitives(<<shape>>,
                                                 scene.instances)))]
    /\ progress' = init_bvh_progress(scene, progress)
    /\ UNCHANGED <<isec, rendervars, sim>>

\* intersect_instance_bvh(instance, ray, find_any, non_rigid_frames) enters
\* intersect_shape_bvh, which pushes the root unless the tree has no node
WalkStart ==
    /\ scene.bvh.built
    /\ isec = NoQuery
    /\ scene.shapes[1].bvh.nodes # <<>>
    /\ \E ray \in ChainRays, find_any \in BOOLEAN :
          isec' = [kind |-> "walk", find_any |-> find_any,
                   ray |-> transform_ray_inverse(scene.instances[1].frame,
                                                 ray),
                   stack |-> <<0>>,
                   out |-> [hit |-> FALSE, element |-> -1, uv |-> <<0, 0>>,
                            distance |-> 0, maxstack |-> 1]]
    /\ UNCHANGED <<scene, progress, rendervars, sim>>

\* one iteration of the walking loop.  node_stack has node_stack_size
\* entries: a push beyond them writes outside the array, which is undefined
\* behaviour, and the query may then do anything
WalkStep ==
    /\ isec # NoQuery
    /\ isec.kind = "walk"
    /\ \E st \in {shape_walk_step(scene.shapes[1], isec.ray, isec.stack,
                                   isec.out, isec.find_any)} :
          isec' \in
             IF Len(st.stack) > node_stack_size
             THEN {[kind |-> "undefined", stack |-> st.stack]}
             ELSE IF st.done
             THEN {[kind |-> "instance", result |-> st.out]}
             ELSE {[isec EXCEPT !.ray = st.ray, !.stack = st.stack,
                                !.out = st.out]}
    /\ UNCHANGED <<scene, progress, rendervars, sim>>

\* the caller takes the result
WalkReturn ==
    /\ isec # NoQuery
    /\ isec.kind # "walk"
    /\ isec' = NoQuery
    /\ UNCHANGED <<scene, progress, rendervars, sim>>

NextDeep ==
    BuildStart \/ BuildStep \/ BuildFinish \/ WalkStart \/ WalkStep
        \/ WalkReturn

SpecDeep == InitDeep /\ [][NextDeep]_vars

\* build_bvh is a loop that runs on until its queue is empty, and init_bvh
\* returns once it has: neither stops in the middle
\* (weak fairness of the three steps of the build; for the iteration and the
\* return the enabling condition is written out as the guard of the action,
\* which always changes the state when it holds)
BuildStepEnabled ==
    /\ ~scene.shapes[1].bvh.built
    /\ "queue" \in DOMAIN scene.shapes[1].bvh
    /\ scene.shapes[1].bvh.queue # <<>>

BuildFinishEnabled ==
    /\ ~scene.shapes[1].bvh.built
    /\ "queue" \in DOMAIN scene.shapes[1].bvh
    /\ scene.shapes[1].bvh.queue = <<>>

SpecDeepFair ==
    /\ SpecDeep
    /\ WF_vars(BuildStart)
    /\ ([]<>~BuildStepEnabled \/ []<><<BuildStep>>_vars)
    /\ ([]<>~BuildFinishEnabled \/ []<><<BuildFinish>>_vars)

\* ------------------------------------------------------------------------
\* Properties of the built trees
\* ------------------------------------------------------------------------
\* the trees of the scene with the boxes of the primitives they were built
\* over: one per shape, one for the scene
ShapeBoxes(shape) ==
    [idx \in 1..Len(shape.points) |->
        point_bounds(shape.positions[shape.points[idx] + 1],
                     shape.radius[shape.points[idx] + 1])]

InstanceBoxes(sc) ==
    [i \in 1..Len(sc.instances) |->
        LET bvh == sc.shapes[sc.instances[i].shape + 1].bvh
        IN  IF bvh.nodes = <<>> THEN invalidb3f
            ELSE transform_bbox(sc.instances[i].frame, bvh.nodes[1].bbox)]

BuiltTrees ==
    {[tree |-> scene.shapes[s].bvh, boxes |-> ShapeBoxes(scene.shapes[s])] :
        s \in 1..Len(scene.shapes)}
    \cup {[tree |-> scene.bvh, boxes |-> InstanceBoxes(scene)]}

\* the primitives referenced by the leaves of the subtree of a node
RECURSIVE SubtreePrims(_, _)
SubtreePrims(tree, nodeid) ==
    LET node == tree.nodes[nodeid + 1]
    IN  IF node.internal
        THEN SubtreePrims(tree, node.start) \cup SubtreePrims(tree, node.start + 1)
        ELSE {tree.primitives[i + 1] : i \in node.start..(node.start + node.num - 1)}

\* the union of a set of boxes
UnionBox(boxes) ==
    IF boxes = {} THEN invalidb3f
    ELSE [min |-> [k \in 1..3 |->
                     CHOOSE m \in {b.min[k] : b \in boxes} :
                        \A b \in boxes : m <= b.min[k]],
          max |-> [k \in 1..3 |->
                     CHOOSE m \in {b.max[k] : b \in boxes} :
                        \A b \in boxes : m >= b.max[k]]]

\* C1: in every tree produced by build_bvh, the box of every node equals the
\* union of the boxes of the primitives in the leaves of its subtree, and the
\* box of the root contains the box of every primitive of the set.
C1_NodeBoxIsUnion ==
    scene.bvh.built =>
        \A t \in BuiltTrees :
            /\ \A n \in 0..(Len(t.tree.nodes) - 1) :
                  t.tree.nodes[n + 1].bbox =
                     UnionBox({t.boxes[p + 1] : p \in SubtreePrims(t.tree, n)})
            /\ \A p \in 1..Len(t.boxes) :
                  BoxInside(t.boxes[p], t.tree.nodes[1].bbox)

\* a built shape tree with an internal node and a leaf below it
C1_Witness ==
    /\ scene.bvh.built
    /\ \E n \in 1..Len(scene.shapes[1].bvh.nodes) :
          scene.shapes[1].bvh.nodes[n].internal
    /\ Len(scene.instances) > 0

\* C9: build_bvh over an empty primitive set produces a tree with no nodes,
\* for the tree of a shape and for the tree of the scene.
C9_EmptySetNoNodes ==
    scene.bvh.built =>
        \A t \in BuiltTrees : t.boxes = <<>> => t.tree.nodes = <<>>

\* ------------------------------------------------------------------------
\* Properties of the ray queries
\* ------------------------------------------------------------------------
\* exhaustive test of the primitives of the instances insts against a ray:
\* every <<instance, element, uv, distance>> that the ray hits within its range
AllHits(sc, insts, ray) ==
    {h \in UNION {
        LET shape   == sc.shapes[sc.instances[i + 1].shape + 1]
            inv_ray == transform_ray_inverse(sc.instances[i + 1].frame, ray)
        IN  {[instance |-> i, element |-> e,
              isec |-> intersect_point(inv_ray,
                          shape.positions[shape.points[e + 1] + 1],
                          shape.radius[shape.points[e + 1] + 1])] :
                e \in 0..(Len(shape.points) - 1)} : i \in insts} : h.isec.hit}

\* the instances a query ranges over
QueryInstances ==
    IF isec.kind = "scene" THEN 0..(Len(scene.instances) - 1)
    ELSE {isec.instance}

\* C2: nearest-hit traversal reports a hit exactly when the exhaustive test
\* finds one within the range of the ray, and then reports the minimum
\* distance with the instance, element and parametric coordinate of a
\* primitive hit at that distance, for the scene tree and for a shape tree.
C2_NearestMatchesExhaustive ==
    (isec # NoQuery /\ ~isec.find_any) =>
        LET hits == AllHits(scene, QueryInstances, isec.ray)
            r    == isec.result
        IN  /\ r.hit <=> hits # {}
            /\ r.hit =>
                 /\ \A h \in hits : r.distance <= h.isec.dist
                 /\ \E h \in hits :
                       /\ h.isec.dist = r.distance
                       /\ h.element = r.element
                       /\ h.isec.uv = r.uv
                       /\ isec.kind = "scene" => h.instance = r.instance

\* a nearest-hit query of the scene where two primitives at different
\* distances are hit and the nearer one is reported
C2_Witness ==
    /\ isec # NoQuery
    /\ isec.kind = "scene"
    /\ ~isec.find_any
    /\ isec.result.hit
    /\ \E h \in AllHits(scene, QueryInstances, isec.ray) :
          h.isec.dist > isec.result.distance

\* C3: for the same ray and scene, any-hit traversal returns hit exactly when
\* nearest-hit traversal returns hit.
C3_AnyHitIffNearestHit ==
    isec # NoQuery =>
        LET other == IF isec.kind = "scene"
                     THEN intersect_scene_bvh(scene, isec.ray, ~isec.find_any)
                     ELSE intersect_instance_bvh(scene, isec.instance,
                                                 isec.ray, ~isec.find_any)
        IN  isec.result.hit = other.hit

\* an any-hit query of the scene that stops at a hit which is not the nearest
C3_Witness ==
    /\ isec # NoQuery
    /\ isec.kind = "scene"
    /\ isec.find_any
    /\ isec.result.hit
    /\ intersect_scene_bvh(scene, isec.ray, FALSE).distance
          < isec.result.distance

\* C10: a shape with no primitive buffer populated is never hit: a query of an
\* instance of it returns no hit, a query of the scene never reports such an
\* instance, and a scene without instances reports no hit.
C10_EmptyShapeNeverHit ==
    isec # NoQuery =>
        /\ (/\ isec.kind = "instance"
            /\ scene.shapes[scene.instances[isec.instance + 1].shape + 1].points
                  = <<>>)
              => ~isec.result.hit
        /\ (isec.kind = "scene" /\ isec.result.hit) =>
              scene.shapes[scene.instances[isec.result.instance + 1].shape + 1]
                 .points # <<>>
        /\ (isec.kind = "scene" /\ scene.instances = <<>>) => ~isec.result.hit

\* a query of the scene that hits while the scene holds an instance of the
\* shape without primitives inside the leaf that is tested
C10_Witness ==
    /\ isec # NoQuery
    /\ isec.kind = "scene"
    /\ isec.result.hit
    /\ \E i \in 1..Len(scene.instances) :
          scene.shapes[scene.instances[i].shape + 1].points = <<>>

\* ------------------------------------------------------------------------
\* Properties of the sampler
\* ------------------------------------------------------------------------
EntriesAt(st, ij) ==
    <<st.accumulation[ij], st.samples[ij], st.rngs[ij], st.render[ij]>>

\* two render states agree in size and in every entry of every pixel
SameState(a, b) ==
    /\ a.size = b.size
    /\ \A ij \in Pixels(a.size) : EntriesAt(a, ij) = EntriesAt(b, ij)

\* the sequential row-then-column sweep, pixel n onwards
RECURSIVE SequentialSweep(_, _, _)
SequentialSweep(st, n, params) ==
    IF n >= st.size[1] * st.size[2] THEN st
    ELSE SequentialSweep(
            render_sample(st, <<n % st.size[1], n \div st.size[1]>>, params),
            n + 1, params)

\* the state after k sequential sweeps from init_state
RECURSIVE SequentialState(_, _, _)
SequentialState(cam, params, k) ==
    IF k = 0 THEN init_state(cam, params)
    ELSE SequentialSweep(SequentialState(cam, params, k - 1), 0, params)

\* C4: from the same init_state, a sweep in parallel mode ends, for every
\* interleaving of the pixel tasks, in the render state of the sequential
\* row-then-column sweep; the state after k sweeps is determined by the seed
\* and the other parameters alone.
C4_SweepIsDeterministic ==
    rpc = "ready" =>
        SameState(rstate, SequentialState(camera, rparams, nsweeps))

\* two parallel sweeps of a 2 x 2 image by the path tracer have returned
C4_Witness ==
    /\ rpc = "ready"
    /\ ~rparams.noparallel
    /\ rparams.shader = "raytrace"
    /\ rstate.size = <<2, 2>>
    /\ nsweeps = 2

\* C5: a render_sample call on pixel ij changes only the entries of
\* accumulation, samples, rngs and render at ij, and increases samples[ij] by
\* exactly one; the entries of every other pixel are left unchanged.
C5_SampleWritesOwnPixel ==
    [][(rpc = "sweep" /\ rpc' = "sweep") =>
          \A ij \in DOMAIN tasks :
             /\ tasks'[ij] = tasks[ij] =>
                   EntriesAt(rstate', ij) = EntriesAt(rstate, ij)
             /\ (tasks[ij].pc = "todo" /\ tasks'[ij].pc = "shaded") =>
                   rstate'.samples[ij] = rstate.samples[ij]
             /\ (tasks[ij].pc = "shaded" /\ tasks'[ij].pc = "done") =>
                   rstate'.samples[ij] = rstate.samples[ij] + 1]_vars

\* in a parallel sweep one pixel was sampled for the second time while another
\* call is between its shader and its accumulation
C5_Witness ==
    /\ rpc = "sweep"
    /\ ~rparams.noparallel
    /\ \E ij \in DOMAIN tasks, other \in DOMAIN tasks :
          /\ tasks[ij].pc = "done"
          /\ rstate.samples[ij] = 2
          /\ tasks[other].pc = "shaded"

\* C6: with a radiance clamp K > 0 the sample that render_sample adds has no
\* colour channel above K, and no colour channel of the mean image exceeds K.
C6_NoChannelAboveClamp ==
    rparams.clamp > 0 =>
        /\ \A ij \in DOMAIN tasks : \A k \in 1..3 :
              tasks[ij].pc = "shaded" =>
                 ~FGt(tasks[ij].shaded[k], Flt(rparams.clamp))
        /\ \A ij \in DOMAIN rstate.render : \A k \in 1..3 :
              ~FGt(rstate.render[ij][k], Flt(rparams.clamp))

\* C7: a non-finite shader result is replaced by a finite value before it is
\* accumulated: accumulation and render hold only finite values.
C7_AccumulationIsFinite ==
    \A ij \in DOMAIN rstate.render : \A k \in 1..4 :
        /\ isfinite(rstate.accumulation[ij][k])
        /\ isfinite(rstate.render[ij][k])

\* C8 as stated: with an unknown shader the error is raised before any
\* rendering: no render_samples call returns normally and the render state
\* stays as init_state left it.
C8_UnknownShaderAlwaysFails ==
    rparams.shader \notin ShaderTypes =>
        /\ nsweeps = 0
        /\ rpc # "new" => SameState(rstate, init_state(camera, rparams))

\* C8, the part that holds of the code: with an unknown shader init_state
\* succeeds, no generator is advanced and no entry is modified in either
\* mode, and a render_samples call on an image with at least one pixel never
\* returns normally: it is left by the error of its first render_sample call.
C8_UnknownShaderNoEffect ==
    rparams.shader \notin ShaderTypes =>
        /\ rpc # "new" => SameState(rstate, init_state(camera, rparams))
        /\ Pixels(ImageSize(camera, rparams)) # {} => nsweeps = 0
        /\ \A ij \in DOMAIN tasks : tasks[ij].pc \in {"todo", "failed"}
        /\ rpc = "failed" => error

\* a parallel sweep of a 2 x 2 image with an unknown shader was left by the
\* error
C8_Witness ==
    /\ rparams.shader \notin ShaderTypes
    /\ ~rparams.noparallel
    /\ rstate.size = <<2, 2>>
    /\ rpc = "failed"

\* ------------------------------------------------------------------------
\* Properties of the tree structure
\* ------------------------------------------------------------------------
\* the span [lo, hi) of the reordered primitive array covered by a node, and
\* whether every internal node below it joins the spans of its two children
RECURSIVE NodeSpan(_, _)
NodeSpan(tree, nodeid) ==
    LET node == tree.nodes[nodeid + 1]
    IN  IF node.internal
        THEN LET l == NodeSpan(tree, node.start)
                 r == NodeSpan(tree, node.start + 1)
             IN  [lo |-> l.lo, hi |-> r.hi,
                  joined |-> l.joined /\ r.joined /\ l.hi = r.lo]
        ELSE [lo |-> node.start, hi |-> node.start + node.num,
              joined |-> TRUE]

\* C19: in every built tree a node is internal exactly when its span holds
\* more than 4 primitives; a leaf references a contiguous range of at most 4
\* entries of the primitive array; an internal node has exactly two children
\* at the consecutive indices start and start + 1, whose spans are
\* [start, mid) and [mid, end) of the span of the parent.
C19_NodeShape ==
    scene.bvh.built =>
        \A t \in BuiltTrees :
            /\ NodeSpan(t.tree, 0).lo = 0
            /\ NodeSpan(t.tree, 0).hi = Len(t.tree.primitives)
            /\ \A n \in 0..(Len(t.tree.nodes) - 1) :
                  LET node == t.tree.nodes[n + 1]
                      span == NodeSpan(t.tree, n)
                  IN  /\ node.internal <=> span.hi - span.lo > bvh_max_prims
                      /\ span.joined
                      /\ span.lo <= span.hi
                      /\ ~node.internal =>
                            /\ node.num <= bvh_max_prims
                            /\ 0 <= node.start
                            /\ node.start + node.num <= Len(t.tree.primitives)
                      /\ node.internal =>
                            /\ node.num = 2
                            /\ node.start > n
                            /\ node.start + 1 < Len(t.tree.nodes)
                            /\ NodeSpan(t.tree, node.start).lo = span.lo
                            /\ NodeSpan(t.tree, node.start + 1).hi = span.hi
                            /\ NodeSpan(t.tree, node.start).hi
                                  > NodeSpan(t.tree, node.start).lo
                            /\ NodeSpan(t.tree, node.start + 1).hi
                                  > NodeSpan(t.tree, node.start + 1).lo

\* a built shape tree whose root is split unevenly into two leaves
C19_Witness ==
    /\ scene.bvh.built
    /\ scene.shapes[1].bvh.nodes[1].internal
    /\ Len(scene.shapes[1].bvh.nodes) = 3
    /\ NodeSpan(scene.shapes[1].bvh, scene.shapes[1].bvh.nodes[1].start).hi # 2

\* the primitive arrays handed to build_bvh for the scene of the state
SplitInputs ==
    {ShapePrimitives(scene.shapes[s]) : s \in 1..Len(scene.shapes)}
    \cup {ScenePrimitives([s \in 1..Len(scene.shapes) |->
                              init_shape_bvh(scene.shapes[s])],
                          scene.instances)}

\* C20: split_middle(start, end) returns an axis on which the centres of the
\* span have the largest extent, and a split index mid such that either the
\* centres of [start, mid) lie strictly below the midpoint of that extent and
\* those of [mid, end) at or above it, or mid is exactly (start + end) / 2;
\* the latter whenever all centres coincide.
C20_SplitMiddle ==
    \A P \in SplitInputs :
    \A start \in 0..Len(P), end \in 0..Len(P) :
        start < end =>
            LET sp      == split_middle(P, start, end)
                cbbox   == CentersBox(P, start, end)
                csize   == VSub(cbbox.max, cbbox.min)
                middle2 == cbbox.min[sp.axis + 1] + cbbox.max[sp.axis + 1]
                c(i)    == 2 * sp.prims[i + 1].center2[sp.axis + 1]
            IN  /\ sp.axis \in 0..2
                /\ \A k \in 1..3 : csize[sp.axis + 1] >= csize[k]
                /\ csize = zero3 => sp.mid = (start + end) \div 2
                /\ \/ /\ \A i \in start..(sp.mid - 1) : c(i) < middle2
                      /\ \A i \in sp.mid..(end - 1) : c(i) >= middle2
                   \/ sp.mid = (start + end) \div 2

\* a built shape whose root span was partitioned away from the half index,
\* with the primitives reordered
C20_Witness ==
    /\ scene.bvh.built
    /\ \E s \in 1..Len(scene.shapes) :
          LET P  == ShapePrimitives(scene.shapes[s])
              sp == split_middle(P, 0, Len(P))
          IN  /\ Len(P) > bvh_max_prims
              /\ sp.mid # Len(P) \div 2
              /\ sp.prims # P
              /\ scene.shapes[s].bvh.nodes[1].internal

\* ------------------------------------------------------------------------
\* Properties of textures and of the geometry evaluators
\* ------------------------------------------------------------------------
\* C15: after any sequence of set_texture calls at most one of the buffers
\* hdr and ldr of the texture is non-empty, and after a call with a non-empty
\* image exactly the buffer of the format of that image holds it and the
\* other buffer is empty.
C15_OneBufferPopulated ==
    \A t \in 1..Len(scene.textures) :
        LET texture == scene.textures[t]
        IN  /\ ImageEmpty(texture.hdr) \/ ImageEmpty(texture.ldr)
            /\ (isec.kind = "set_texture" /\ ~ImageEmpty(isec.img)) =>
                  IF isec.format = "hdr"
                  THEN texture.hdr = isec.img /\ ImageEmpty(texture.ldr)
                  ELSE texture.ldr = isec.img /\ ImageEmpty(texture.hdr)

\* an ldr image was set on a texture that held an hdr image
C15_Witness ==
    /\ isec.kind = "set_texture"
    /\ isec.format = "ldr"
    /\ ~ImageEmpty(isec.img)
    /\ scene.textures[1].ldr = isec.img
    /\ scene.textures[1].ldr.size = <<2, 1>>

\* C16: eval_texture with no texture bound returns opaque white (1, 1, 1, 1)
\* for every coordinate and every flag combination.
C16_NullTextureOpaqueWhite ==
    (isec.kind = "eval_texture" /\ isec.texture.null) =>
        isec.result = <<Flt(1), Flt(1), Flt(1), Flt(1)>>

\* C17: for a shape with no primitive buffer populated, eval_position,
\* eval_normal and eval_texcoord return the zero vector, for every element
\* index and parametric coordinate, whatever attribute buffers are present.
C17_EmptyShapeEvaluatesToZero ==
    (isec.kind = "eval_shape" /\ scene.shapes[1].points = <<>>) =>
        /\ isec.position = zero3
        /\ isec.normal = zero3
        /\ isec.texcoord = zero2f

\* ------------------------------------------------------------------------
\* Properties of init_bvh's progress reports and of the path tracers
\* ------------------------------------------------------------------------
\* the progress calls init_bvh makes for a scene of n shapes
ShapeCalls(n) == [idx \in 1..n |-> <<"build shape bvh", idx - 1, 1 + n>>]
SceneCall(n) == <<"build scene bvh", n, 1 + n>>
FinalCall(n) == <<"build bvh", n + 1, 1 + n>>

\* C12 as stated: once init_bvh has run with a callback the callback was
\* called once per shape and once for the scene tree, number of shapes + 1
\* calls in all, and no call is made before init_bvh or by the sampler.
C12_ShapesPlusOneCalls ==
    LET n == Len(scene.shapes)
    IN  progress.calls =
           IF scene.bvh.built /\ progress.callback
           THEN ShapeCalls(n) \o <<SceneCall(n)>>
           ELSE <<>>

\* C12, amended: init_bvh also reports its completion, so a callback is called
\* number of shapes + 2 times: once before each shape is built, once before
\* the scene tree is built and once at the end; without a callback there is
\* no call; and the calls are the same before, during and after every sweep,
\* so the sampler makes none.
C12_ShapesPlusTwoCalls ==
    LET n == Len(scene.shapes)
    IN  progress.calls =
           IF scene.bvh.built /\ progress.callback
           THEN ShapeCalls(n) \o <<SceneCall(n), FinalCall(n)>>
           ELSE <<>>

\* two shapes were built with a callback and a sweep has completed
C12_Witness ==
    /\ scene.bvh.built
    /\ progress.callback
    /\ Len(scene.shapes) = 2
    /\ Len(progress.calls) = 4
    /\ nsweeps >= 1

\* C11 as stated: no activation of shade_raytrace runs with a bounce counter
\* greater than params.bounces.
C11_BounceWithinCap ==
    \A ij \in DOMAIN tasks :
        (rparams.shader = "raytrace" /\ tasks[ij].pc = "tracing")
            => tasks[ij].call.bounce <= rparams.bounces

\* the environment colour of a scene without geometry, as a pixel
EnvironmentPixel ==
    LET c == scene.environments[1].emission
    IN  <<c[1], c[2], c[3], Flt(1)>>

EnvironmentOnly ==
    /\ scene.instances = <<>>
    /\ Len(scene.environments) = 1
    /\ rparams.shader \in {"raytrace", "personal"}

\* C14 as stated: without geometry and with one environment of constant
\* emission C, every sampled pixel of the mean image is C.
C14_MeanIsEnvironment ==
    EnvironmentOnly =>
        \A ij \in DOMAIN rstate.render :
            rstate.samples[ij] > 0 => rstate.render[ij] = EnvironmentPixel

\* C14, amended: every sampled pixel of the mean image is C when no channel
\* of C exceeds params.clamp, and C scaled by params.clamp / max(C)
\* otherwise.
C14_MeanIsClampedEnvironment ==
    EnvironmentOnly =>
        \A ij \in DOMAIN rstate.render :
            rstate.samples[ij] > 0 =>
                LET c == EnvironmentPixel
                    m == max_xyz(c)
                    k == FDiv(Flt(rparams.clamp), m)
                IN  rstate.render[ij] =
                       IF FGt(m, Flt(rparams.clamp))
                       THEN <<FMul(c[1], k), FMul(c[2], k), FMul(c[3], k),
                              Flt(1)>>
                       ELSE c

\* two sweeps over two pixels of an environment within the clamp
C14_Witness ==
    /\ EnvironmentOnly
    /\ nsweeps = 2
    /\ rstate.size = <<2, 1>>
    /\ ~FGt(max_xyz(EnvironmentPixel), Flt(rparams.clamp))
    /\ rstate.render[<<1, 0>>] = EnvironmentPixel

\* C18: every step taken while render_samples runs, the shader activations
\* and their intersection queries included, leaves the scene (shapes,
\* materials, instances, environments and the trees) as it was, and with it
\* the camera and the parameters; it writes the render state only.
C18_SceneReadOnly ==
    [][(rpc = "sweep" \/ rpc' = "sweep")
          => /\ scene' = scene
             /\ camera' = camera
             /\ rparams' = rparams]_vars

\* a sweep in which both pixels are inside the shader, one of them two calls
\* deep below a surface that was hit
C18_Witness ==
    /\ rpc = "sweep"
    /\ scene.instances # <<>>
    /\ \A ij \in DOMAIN tasks : tasks[ij].pc = "tracing"
    /\ \E ij \in DOMAIN tasks : Len(tasks[ij].stack) >= 2
    /\ rstate.size = <<2, 1>>

\* ------------------------------------------------------------------------
\* Properties of the traversal stack
\* ------------------------------------------------------------------------
\* C13 as stated: whatever the primitives, the placement of their centres and
\* the ray, a query never holds more node indices on its stack than the
\* node_stack array has entries.
C13_StackWithinCapacity ==
    isec # NoQuery => (isec.kind \in {"walk", "undefined"}
                          => Len(isec.stack) <= node_stack_size)

\* ------------------------------------------------------------------------
\* Properties: material branches of the path tracer
\* ------------------------------------------------------------------------
\* the material the activation of task ij hits, and whether it hits at all
ActivationHit(ij) == intersect_scene_bvh(scene, tasks[ij].call.ray, FALSE)
MaterialOf(hit) ==
    scene.materials[scene.instances[hit.instance + 1].material + 1]

\* the order of precedence: the first kind of material in this list that
\* the material is
BranchOrder ==
    <<"refraction", "thin", "polished", "rough", "plastic", "matte">>
IsKind(m, kind) ==
    CASE kind = "refraction" -> m.transmission # Flt(0) /\ ~m.thin
      [] kind = "thin"       -> m.transmission # Flt(0) /\ m.thin
      [] kind = "polished"   -> m.metallic # Flt(0) /\ m.roughness = Flt(0)
      [] kind = "rough"      -> m.metallic # Flt(0) /\ m.roughness # Flt(0)
      [] kind = "plastic"    -> m.specular # Flt(0)
      [] kind = "matte"      -> TRUE
FirstKind(m) ==
    BranchOrder[CHOOSE k \in 1..6 :
                   /\ IsKind(m, BranchOrder[k])
                   /\ \A j \in 1..(k - 1) : ~IsKind(m, BranchOrder[j])]

\* an activation of shade_raytrace of task ij runs in this step, on a hit
\* whose opacity test passes while the bounce cap is not reached
BranchStep(ij, hit) ==
    /\ rpc = "sweep"
    /\ ij \in DOMAIN tasks
    /\ tasks[ij].pc = "tracing"
    /\ ~tasks[ij].returning
    /\ tasks'[ij] # tasks[ij]
    /\ get_shader(rparams) = "raytrace"
    /\ hit.hit
    /\ ~FGt(rand1f(rstate.rngs[ij]).value, MaterialOf(hit).opacity)
    /\ tasks[ij].call.bounce < rparams.bounces

\* C21: once the opacity test has passed and the bounce cap is not reached,
\* the activation takes the first branch of the precedence non-thin
\* transmissive, thin transmissive, smooth metal, rough metal, specular,
\* diffuse that its material meets, and makes one nested call, with
\* bounce + 1.
C21_OneBranchInPrecedence ==
    [][\A ij \in {p \in DOMAIN tasks : tasks[p].pc = "tracing"} :
       \A hit \in {ActivationHit(ij)} :
          BranchStep(ij, hit) =>
             /\ ~tasks'[ij].returning
             /\ Len(tasks'[ij].stack) = Len(tasks[ij].stack) + 1
             /\ tasks'[ij].call.bounce = tasks[ij].call.bounce + 1
             /\ tasks'[ij].stack[Len(tasks'[ij].stack)].branch
                   = FirstKind(MaterialOf(hit))]_vars

\* an activation that hit rough metal which is also specular waits for its
\* nested call, made from the rough metal branch at bounce 0
C21_Witness ==
    \E ij \in DOMAIN tasks :
        /\ tasks[ij].pc = "tracing"
        /\ Len(tasks[ij].stack) >= 1
        /\ tasks[ij].stack[1].branch = "rough"
        /\ tasks[ij].stack[1].bounce = 0
        /\ tasks[ij].call.bounce = 1
        /\ scene.materials[scene.instances[1].material + 1].specular # Flt(0)

\* ------------------------------------------------------------------------
\* Properties: the other shaders
\* ------------------------------------------------------------------------
\* an activation of the given shaders runs in this step
ShaderStep(ij, shaders) ==
    /\ rpc = "sweep"
    /\ tasks[ij].pc = "tracing"
    /\ ~tasks[ij].returning
    /\ tasks'[ij] # tasks[ij]
    /\ get_shader(rparams) \in shaders

\* the activation is the only one of its sample (one scene intersection, no
\* nested call) and returns the same whatever the bounce argument and
\* params.bounces are
SingleBounce(ij, hit) ==
    /\ tasks[ij].stack = <<>>
    /\ tasks'[ij].returning
    /\ tasks'[ij].stack = <<>>
    /\ \A b \in 0..(MaxBounces + 1), cap \in 0..(MaxBounces + 1) :
          shader_with_isec(get_shader(rparams), scene, tasks[ij].call.ray, b,
                           rstate.rngs[ij],
                           [rparams EXCEPT !.bounces = cap], hit).color
             = tasks'[ij].ret

\* C22 as stated: every shader other than the full path tracer (eyelight,
\* normal, texcoord, color, toon, personal) is single-bounce: one invocation
\* performs one scene intersection, makes no recursive call, and its result
\* depends neither on the bounce argument nor on params.bounces.
C22_AllButRaytraceSingleBounce ==
    [][\A ij \in {p \in DOMAIN tasks : tasks[p].pc = "tracing"} :
       \A hit \in {ActivationHit(ij)} :
          ShaderStep(ij, ShaderTypes \ {"raytrace"}) => SingleBounce(ij, hit)
      ]_vars

\* C22 amended: the shaders eyelight, normal, texcoord, color and toon are
\* single-bounce; shade_personal calls itself with bounce + 1 on every hit
\* below the cap params.bounces and returns the emission at the cap.
C22_DebugShadersSingleBounce ==
    [][\A ij \in {p \in DOMAIN tasks : tasks[p].pc = "tracing"} :
       \A hit \in {ActivationHit(ij)} :
          /\ ShaderStep(ij, {"eyelight", "normal", "texcoord", "color",
                             "toon"}) => SingleBounce(ij, hit)
          /\ ShaderStep(ij, {"personal"}) /\ hit.hit =>
                IF tasks[ij].call.bounce >= rparams.bounces
                THEN /\ tasks'[ij].returning
                     /\ xyz(tasks'[ij].ret) = MaterialOf(hit).emission
                ELSE /\ ~tasks'[ij].returning
                     /\ Len(tasks'[ij].stack) = Len(tasks[ij].stack) + 1
                     /\ tasks'[ij].call.bounce = tasks[ij].call.bounce + 1
      ]_vars

\* the toon shader returned a colour for a hit
C22_Witness ==
    \E ij \in DOMAIN tasks :
        /\ get_shader(rparams) = "toon"
        /\ tasks[ij].pc = "tracing"
        /\ tasks[ij].returning
        /\ tasks[ij].ret[4] = Flt(1)
        /\ tasks[ij].ret[1] # Flt(0)

\* C25: for every hit and every texture coordinate, negative ones and ones
\* above 1 included, the texture-coordinate shader returns a colour whose
\* first two channels lie in [0, 1] and whose third channel is 0.
C25_TexcoordChannelsInUnitRange ==
    \A ij \in {p \in DOMAIN tasks : tasks[p].pc = "tracing"} :
        /\ get_shader(rparams) = "texcoord"
        /\ tasks[ij].returning
        /\ ActivationHit(ij).hit
        => /\ ~FLt(tasks[ij].ret[1], Flt(0)) /\ ~FGt(tasks[ij].ret[1], Flt(1))
           /\ ~FLt(tasks[ij].ret[2], Flt(0)) /\ ~FGt(tasks[ij].ret[2], Flt(1))
           /\ tasks[ij].ret[3] = Flt(0)

\* ------------------------------------------------------------------------
\* Properties: the sample buffers
\* ------------------------------------------------------------------------
\* C23: after init_state and any sequence of render_sample calls, a pixel
\* without samples has a zero accumulation and a zero render value, and any
\* other pixel's render value is its accumulation divided by its sample count.
C23_RenderIsMean ==
    rpc # "new" =>
       \A ij \in Pixels(rstate.size) :
          IF rstate.samples[ij] = 0
          THEN /\ rstate.accumulation[ij] = zero4f
               /\ rstate.render[ij] = zero4f
          ELSE rstate.render[ij]
                  = V4Div(rstate.accumulation[ij], rstate.samples[ij])

\* a pixel holds two samples with a finite sum that is not zero, so its mean
\* differs from its sum, while another pixel of the image holds one sample
C23_Witness ==
    /\ rpc # "new"
    /\ \E ij \in Pixels(rstate.size), other \in Pixels(rstate.size) :
          /\ rstate.samples[ij] = 2
          /\ isfinite_xyz(rstate.accumulation[ij])
          /\ rstate.render[ij] # rstate.accumulation[ij]
          /\ rstate.samples[other] = 1

\* C24: one render_samples call samples every pixel once, in sequential and
\* in parallel mode: after k completed sweeps following init_state every
\* pixel's sample count is k (within a sweep, k plus one for the pixels
\* already sampled), and neither a sample count nor the size of a buffer
\* decreases from one step to the next.
C24_EverySweepSamplesEachPixelOnce ==
    /\ [](rpc \in {"ready", "sweep"} =>
            \A ij \in Pixels(rstate.size) :
               rstate.samples[ij] =
                  nsweeps + (IF rpc = "sweep" /\ tasks[ij].pc = "done"
                             THEN 1 ELSE 0))
    /\ [][rpc # "new" =>
            /\ rstate'.size = rstate.size
            /\ DOMAIN rstate'.samples = DOMAIN rstate.samples
            /\ DOMAIN rstate'.render = DOMAIN rstate.render
            /\ DOMAIN rstate'.accumulation = DOMAIN rstate.accumulation
            /\ \A ij \in Pixels(rstate.size) :
                  rstate'.samples[ij] >= rstate.samples[ij]]_vars

\* two sweeps over an image of more than one pixel have completed, one run
\* in parallel mode
C24_Witness ==
    /\ rpc = "ready"
    /\ nsweeps = 2
    /\ ~rparams.noparallel
    /\ \E ij \in Pixels(rstate.size), other \in Pixels(rstate.size) :
          ij # other /\ rstate.samples[ij] = 2 /\ rstate.samples[other] = 2

\* ------------------------------------------------------------------------
\* Properties: texel addressing
\* ------------------------------------------------------------------------
\* the texel indices eval_texture used in the evaluation on record
UsedTexels ==
    texel_coordinates(texture_size(isec.texture), isec.uv,
                      isec.clamp_to_edge)

\* C26: for a texture with a pixel buffer of size (w, h) that is not empty
\* and any coordinate uv, in clamp and in wrap addressing, the texel indices
\* i, j, ii, jj of eval_texture lie in [0, w - 1] x [0, h - 1], with
\* ii = (i + 1) mod w and jj = (j + 1) mod h.
C26_TexelIndicesInRange ==
    (/\ isec.kind = "eval_texture"
     /\ ~isec.texture.null
     /\ texture_size(isec.texture)[1] > 0
     /\ texture_size(isec.texture)[2] > 0)
    => LET w == texture_size(isec.texture)[1]
           h == texture_size(isec.texture)[2]
       IN  \A tc \in {UsedTexels} :
              /\ tc.i \in 0..(w - 1) /\ tc.ii \in 0..(w - 1)
              /\ tc.j \in 0..(h - 1) /\ tc.jj \in 0..(h - 1)
              /\ tc.ii = (tc.i + 1) % w
              /\ tc.jj = (tc.j + 1) % h

\* a texture two texels wide was evaluated in wrap addressing at a negative
\* coordinate that lands in the last texel, whose successor is the first
C26_Witness ==
    /\ isec.kind = "eval_texture"
    /\ ~isec.texture.null
    /\ texture_size(isec.texture) = <<2, 1>>
    /\ ~isec.clamp_to_edge
    /\ FGt(Flt(0), isec.uv[1])
    /\ UsedTexels.i = 1
    /\ UsedTexels.ii = 0

\* ------------------------------------------------------------------------
\* Properties: the primitive array and the size of the tree
\* ------------------------------------------------------------------------
\* the leaves of a tree whose range holds the position pos of the array
LeavesAt(tree, pos) ==
    {m \in 1..Len(tree.nodes) :
        /\ ~tree.nodes[m].internal
        /\ tree.nodes[m].start <= pos
        /\ pos < tree.nodes[m].start + tree.nodes[m].num}

PermutationWithLeafPartition(tree, n) ==
    /\ Len(tree.primitives) = n
    /\ {tree.primitives[k] : k \in 1..n} = 0..(n - 1)
    /\ \A pos \in 0..(n - 1) : Cardinality(LeavesAt(tree, pos)) = 1

\* C27: for every primitive set of size n the reordered primitive-index
\* array stored in the tree is a permutation of 0..n-1, and the ranges of
\* the leaves partition it: every entry lies in the range of exactly one
\* leaf.
C27_PrimitivesArePermutation ==
    /\ scene.shapes[1].bvh.built =>
          PermutationWithLeafPartition(scene.shapes[1].bvh,
                                       Len(scene.shapes[1].points))
    /\ scene.bvh.built =>
          PermutationWithLeafPartition(scene.bvh, Len(scene.instances))

\* the tree of the longest chain is built, with more than two leaves, and
\* the array is not in its initial order
C27_Witness ==
    /\ scene.shapes[1].bvh.built
    /\ Len(scene.shapes[1].points) = MaxChain
    /\ scene.shapes[1].bvh.primitives[1] # 0
    /\ Len(scene.shapes[1].bvh.nodes) >= 5

\* build_bvh is inside its loop
Building ==
    /\ ~scene.shapes[1].bvh.built
    /\ "queue" \in DOMAIN scene.shapes[1].bvh

\* the two entries a split appended to the queue have spans that are not
\* empty, are smaller than the span split, and make it up
SplitShrinks(before, after) ==
    LET parent == Head(before)
        na     == Len(after)
        left   == after[na - 1]
        right  == after[na]
    IN  /\ na = Len(before) + 1
        /\ left[2] = parent[2] /\ left[3] = right[2] /\ right[3] = parent[3]
        /\ left[2] < left[3] /\ right[2] < right[3]
        /\ left[3] - left[2] < parent[3] - parent[2]
        /\ right[3] - right[2] < parent[3] - parent[2]

\* C28: build_bvh terminates: each split of a span of more than 4 primitives
\* gives two children whose spans are not empty and smaller than the
\* parent's, the queue empties, and the tree of n >= 1 primitives has at
\* most 2n - 1 nodes.
C28_BuildTerminates ==
    /\ [][(Building /\ Building'
           /\ scene'.shapes[1].bvh # scene.shapes[1].bvh
           /\ Head(scene.shapes[1].bvh.queue)[3]
                 - Head(scene.shapes[1].bvh.queue)[2] > bvh_max_prims)
          => SplitShrinks(scene.shapes[1].bvh.queue,
                          scene'.shapes[1].bvh.queue)]_vars
    /\ [](Len(scene.shapes[1].points) >= 1 =>
             Len(scene.shapes[1].bvh.nodes)
                <= 2 * Len(scene.shapes[1].points) - 1)
    /\ (Building ~> scene.shapes[1].bvh.built)

\* the tree over the longest run of coincident points is built: its spans
\* were halved, down to leaves
C28_Witness ==
    /\ scene.shapes[1].bvh.built
    /\ Len(scene.shapes[1].points) = MaxChain
    /\ \A k \in 1..MaxChain : scene.shapes[1].points[k] = 0
    /\ Len(scene.shapes[1].bvh.nodes) > MaxChain \div bvh_max_prims

\* ------------------------------------------------------------------------
\* Particle simulator (yocto_particle): floats and vectors
\* ------------------------------------------------------------------------
\* The floats of the simulator are the values of the sampler above rounded
\* to multiples of 1 / SimGrid after every operation, with magnitudes of
\* SimMax or more overflowing to an infinity; NaN and the infinities behave
\* as in IEEE 754.
SimGrid == 16
SimMax == 2048

Rnd(a) ==
    IF a[2] = 0 THEN a
    ELSE IF Abs(a[1]) \div a[2] >= SimMax THEN <<Sign(a[1]), 0>>
    ELSE Frac((a[1] \div a[2]) * SimGrid
                 + (2 * (a[1] % a[2]) * SimGrid + a[2]) \div (2 * a[2]),
              SimGrid)

RAdd(a, b) == Rnd(FAdd(a, b))
RSub(a, b) == Rnd(FSub(a, b))
RMul(a, b) == Rnd(FMul(a, b))
RDiv(a, b) == Rnd(FDiv(a, b))

RECURSIVE ISqrt(_)
ISqrt(m) ==
    IF m < 2 THEN m
    ELSE LET s == 2 * ISqrt(m \div 4)
         IN  IF (s + 1) * (s + 1) <= m THEN s + 1 ELSE s

\* sqrt(float)
RSqrt(a) ==
    IF FIsNaN(a) \/ a = NInf \/ a[1] < 0 THEN NaN
    ELSE IF a = PInf THEN PInf
    ELSE Frac(ISqrt((a[1] * SimGrid * SimGrid) \div a[2]), SimGrid)

\* operator != and operator! of a float: NaN differs from zero
FNonZero(a) == a # Flt(0)

R3Add(a, b) == [k \in 1..3 |-> RAdd(a[k], b[k])]
R3Sub(a, b) == [k \in 1..3 |-> RSub(a[k], b[k])]
R3Scale(a, s) == [k \in 1..3 |-> RMul(a[k], s)]
R3Div(a, s) == [k \in 1..3 |-> RDiv(a[k], s)]
RDot(a, b) ==
    RAdd(RAdd(RMul(a[1], b[1]), RMul(a[2], b[2])), RMul(a[3], b[3]))
RCross(a, b) ==
    <<RSub(RMul(a[2], b[3]), RMul(a[3], b[2])),
      RSub(RMul(a[3], b[1]), RMul(a[1], b[3])),
      RSub(RMul(a[1], b[2]), RMul(a[2], b[1]))>>

\* length(a), distance(a, b), normalize(a) of yocto_math; normalize returns
\* its argument when the length is zero
RLength(a) == RSqrt(RDot(a, a))
RDistance(a, b) == RLength(R3Sub(a, b))
NormalizeBy(a, l) == IF FNonZero(l) THEN R3Div(a, l) ELSE a
RNormalize(a) == NormalizeBy(a, RLength(a))

\* cos(2 pi a / RngModulus) in sixteenths
CosTable == <<16, 15, 11, 6, 0, -6, -11, -15, -16, -15, -11, -6, 0, 6, 11, 15>>
CosTurn(a) == Frac(CosTable[(((a * 16) \div RngModulus) % 16) + 1], 16)
SinTurn(a) == CosTurn(a + 3 * (RngModulus \div 4))

\* sample_sphere(ruv) of yocto_sampling: z = 2 ruv.y - 1, r = sqrt(1 - z z),
\* phi = 2 pi ruv.x, the point (r cos phi, r sin phi, z); ruv in
\* RngModulus-ths
SphereAt(z, r, a) == <<RMul(r, CosTurn(a)), RMul(r, SinTurn(a)), z>>
SphereZ(z, a) == SphereAt(z, RSqrt(RSub(Flt(1), RMul(z, z))), a)
sample_sphere(ruv) ==
    SphereZ(RSub(Frac(2 * ruv[2], RngModulus), Flt(1)), ruv[1])

\* get_edges(quads) of yocto_shape: the undirected edges of the quads, each
\* once, in the order the quads first give them, the smaller index first;
\* a quad with z = w is a triangle
QuadEdges(q) ==
    <<<<q[1], q[2]>>, <<q[2], q[3]>>>>
       \o (IF q[3] # q[4] THEN <<<<q[3], q[4]>>>> ELSE <<>>)
       \o <<<<q[4], q[1]>>>>

RECURSIVE InsertEdges(_, _, _)
InsertEdges(edges, es, k) ==
    IF k > Len(es) THEN edges
    ELSE LET e == IF es[k][1] < es[k][2] THEN es[k]
                  ELSE <<es[k][2], es[k][1]>>
         IN  InsertEdges(IF \E j \in 1..Len(edges) : edges[j] = e
                         THEN edges ELSE Append(edges, e), es, k + 1)

RECURSIVE EdgeLoop(_, _, _)
EdgeLoop(quads, k, edges) ==
    IF k > Len(quads) THEN edges
    ELSE EdgeLoop(quads, k + 1, InsertEdges(edges, QuadEdges(quads[k]), 1))

get_edges(quads) == EdgeLoop(quads, 1, <<>>)

\* ------------------------------------------------------------------------
\* Particle simulator: init_simulation
\* ------------------------------------------------------------------------
\* triangle_normal, triangle_area, quad_normal, quad_area of yocto_geometry
triangle_normal(p0, p1, p2) == RNormalize(RCross(R3Sub(p1, p0), R3Sub(p2, p0)))
triangle_area(p0, p1, p2) ==
    RDiv(RLength(RCross(R3Sub(p1, p0), R3Sub(p2, p0))), Flt(2))
quad_normal(p0, p1, p2, p3) ==
    RNormalize(R3Add(triangle_normal(p0, p1, p3), triangle_normal(p2, p3, p1)))
quad_area(p0, p1, p2, p3) ==
    RAdd(triangle_area(p0, p1, p3), triangle_area(p2, p3, p1))

\* compute_normals(quads, positions) of yocto_shape: every vertex of a quad
\* gathers the normal of the quad weighted by its area, then is normalized
AddAt(normals, q, n) ==
    [i \in 1..Len(normals) |->
        IF i - 1 \in {q[1], q[2], q[3], q[4]} THEN R3Add(normals[i], n)
        ELSE normals[i]]

RECURSIVE NormalLoop(_, _, _, _)
NormalLoop(quads, positions, k, normals) ==
    IF k > Len(quads) THEN [i \in 1..Len(normals) |-> RNormalize(normals[i])]
    ELSE NormalLoop(quads, positions, k + 1,
            AddAt(normals, quads[k],
                  R3Scale(quad_normal(positions[quads[k][1] + 1],
                                      positions[quads[k][2] + 1],
                                      positions[quads[k][3] + 1],
                                      positions[quads[k][4] + 1]),
                          quad_area(positions[quads[k][1] + 1],
                                    positions[quads[k][2] + 1],
                                    positions[quads[k][3] + 1],
                                    positions[quads[k][4] + 1]))))

compute_normals(quads, positions) ==
    NormalLoop(quads, positions, 1, [i \in 1..Len(positions) |-> zero3f])

\* the setup of the pinned vertices, lines 150-152
RECURSIVE PinLoop(_, _, _)
PinLoop(invmass, pinned, k) ==
    IF k > Len(pinned) THEN invmass
    ELSE PinLoop([invmass EXCEPT ![pinned[k] + 1] = Flt(0)], pinned, k + 1)

\* lines 155-158: the two draws of one velocity are operands of one
\* product, and the build fixes which is drawn first
VelocityDraws(rng, order) ==
    IF order = "left"
    THEN LET d2 == rand2f(rng)
             d1 == rand1f(d2.rng)
         IN  [ruv |-> d2.value, r |-> d1.value, rng |-> d1.rng]
    ELSE LET d1 == rand1f(rng)
             d2 == rand2f(d1.rng)
         IN  [ruv |-> d2.value, r |-> d1.value, rng |-> d2.rng]

RECURSIVE VelocityLoop(_, _, _, _, _)
VelocityLoop(velocities, rngscale, rng, order, i) ==
    IF i > Len(velocities) THEN [velocities |-> velocities, rng |-> rng]
    ELSE LET d == VelocityDraws(rng, order)
         IN  VelocityLoop(
                [velocities EXCEPT ![i] =
                    R3Add(@, R3Scale(R3Scale(sample_sphere(d.ruv), rngscale),
                                     d.r))],
                rngscale, d.rng, order, i + 1)

\* lines 163-176: a spring per edge of the quads, then the two diagonals of
\* every quad
MakeSpring(positions, a, b, coeff) ==
    [vert0 |-> a, vert1 |-> b,
     rest |-> RDistance(positions[a + 1], positions[b + 1]), coeff |-> coeff]

EdgeSprings(positions, edges, coeff) ==
    [k \in 1..Len(edges) |->
        MakeSpring(positions, edges[k][1], edges[k][2], coeff)]

RECURSIVE DiagonalSprings(_, _, _, _, _)
DiagonalSprings(positions, quads, coeff, k, springs) ==
    IF k > Len(quads) THEN springs
    ELSE DiagonalSprings(positions, quads, coeff, k + 1,
            springs \o
               <<MakeSpring(positions, quads[k][1], quads[k][3], coeff),
                 MakeSpring(positions, quads[k][4], quads[k][2], coeff)>>)

\* make_quads_bvh: the tree over the quads of the collider
BuildCollider(collider) ==
    IF collider.quads # <<>> THEN [collider EXCEPT !.bvh = TRUE]
    ELSE collider

\* the body of the loop over the shapes, lines 137-185
InitShape(shape, rng, order) ==
    LET n == Len(shape.initial_invmass)
        drawn == VelocityLoop(shape.initial_velocities, shape.emit_rngscale,
                              rng, order, 1)
    IN  [shape |->
            [shape EXCEPT
                !.positions = shape.initial_positions,
                !.normals = shape.initial_normals,
                !.velocities = drawn.velocities,
                !.invmass = PinLoop(shape.initial_invmass,
                                    shape.initial_pinned, 1),
                !.radius = shape.initial_radius,
                !.forces = @ \o [i \in 1..n |-> zero3f],
                !.springs =
                    IF FGt(shape.spring_coeff, Flt(0)) /\ shape.quads # <<>>
                    THEN DiagonalSprings(shape.initial_positions, shape.quads,
                            shape.spring_coeff, 1,
                            @ \o EdgeSprings(shape.initial_positions,
                                             get_edges(shape.quads),
                                             shape.spring_coeff))
                    ELSE @],
         rng |-> drawn.rng]

RECURSIVE InitLoop(_, _, _, _, _)
InitLoop(shapes, colliders, rng, order, k) ==
    IF k > Len(shapes) THEN [shapes |-> shapes, colliders |-> colliders]
    ELSE LET r == InitShape(shapes[k], rng, order)
         IN  InitLoop([shapes EXCEPT ![k] = r.shape],
                      [c \in 1..Len(colliders) |-> BuildCollider(colliders[c])],
                      r.rng, order, k + 1)

\* init_simulation(scene, params)
init_simulation(pscene, params, order) ==
    InitLoop(pscene.shapes, pscene.colliders, make_rng(params.seed, 1),
             order, 1)

\* ------------------------------------------------------------------------
\* Particle simulator: collisions and the two solvers
\* ------------------------------------------------------------------------
\* a >= b; false when either is NaN
FGe(a, b) == FGt(a, b) \/ (a = b /\ ~FIsNaN(a))

\* intersect_quads_bvh for the ray from position along (0, 1, 0): the
\* colliders of the model are horizontal axis-aligned quads with one normal,
\* which the ray meets when the position lies below them and inside them;
\* the nearest one is the hit
QuadAbove(collider, q, position) ==
    LET v == [i \in 1..4 |-> collider.positions[q[i] + 1]]
    IN  /\ FGt(v[1][2], position[2])
        /\ \E i, j \in 1..4 : /\ FGe(position[1], v[i][1])
                              /\ FGe(v[j][1], position[1])
        /\ \E i, j \in 1..4 : /\ FGe(position[3], v[i][3])
                              /\ FGe(v[j][3], position[3])

NearestQuad(collider, position, above) ==
    CHOOSE k \in above :
        \A j \in above :
            \/ FGt(collider.positions[collider.quads[j][1] + 1][2],
                   collider.positions[collider.quads[k][1] + 1][2])
            \/ (j >= k /\ collider.positions[collider.quads[j][1] + 1][2]
                            = collider.positions[collider.quads[k][1] + 1][2])

QuadHitAt(collider, q, position) ==
    [position |-> <<position[1], collider.positions[q[1] + 1][2], position[3]>>,
     normal |-> RNormalize(collider.normals[q[1] + 1])]

CollideAt(at) ==
    [hit |-> FGt(RDot(at.normal, <<Flt(0), Flt(1), Flt(0)>>), Flt(0)),
     position |-> at.position, normal |-> at.normal]

\* collide_collider(collider, position, hit_position, hit_normal)
collide_collider(collider, position) ==
    LET above == {k \in 1..Len(collider.quads) :
                     QuadAbove(collider, collider.quads[k], position)}
    IN  IF collider.quads = <<>> \/ above = {}
        THEN [hit |-> FALSE, position |-> zero3f, normal |-> zero3f]
        ELSE CollideAt(QuadHitAt(collider,
                collider.quads[NearestQuad(collider, position, above)],
                position))

\* lines 243-255: gravity on the particles that have a mass, then the wind
\* on every particle when the flag is set
BaseForce(force, invmass, params) ==
    IF params.flag
    THEN R3Div(<<Flt(4), Flt(0), Flt(0)>>, invmass)
    ELSE IF FNonZero(invmass)
    THEN R3Div(<<Flt(0), FMul(Flt(-1), params.gravity), Flt(0)>>, invmass)
    ELSE force

\* lines 264-274
SpringForceAt(spring, invmass, spring_dir, spring_len, delta_vel) ==
    R3Add(R3Div(R3Scale(spring_dir,
                        RSub(RDiv(spring_len, spring.rest), Flt(1))),
                RMul(spring.coeff, invmass)),
          R3Div(R3Scale(spring_dir,
                        RDot(R3Div(delta_vel, spring.rest), spring_dir)),
                RMul(RMul(spring.coeff, Flt(1000)), invmass)))

SpringForceOf(spring, invmass, delta_pos, delta_vel) ==
    SpringForceAt(spring, invmass, RNormalize(delta_pos), RLength(delta_pos),
                  delta_vel)

ApplyForce(forces, spring, force) ==
    [forces EXCEPT ![spring.vert0 + 1] = R3Add(@, force),
                   ![spring.vert1 + 1] = R3Sub(@, force)]

\* lines 257-277
RECURSIVE SpringForceLoop(_, _, _)
SpringForceLoop(shape, forces, k) ==
    IF k > Len(shape.springs) THEN forces
    ELSE IF ~FNonZero(RAdd(shape.invmass[shape.springs[k].vert0 + 1],
                           shape.invmass[shape.springs[k].vert1 + 1]))
    THEN SpringForceLoop(shape, forces, k + 1)
    ELSE SpringForceLoop(shape,
            ApplyForce(forces, shape.springs[k],
               SpringForceOf(shape.springs[k],
                  RAdd(shape.invmass[shape.springs[k].vert0 + 1],
                       shape.invmass[shape.springs[k].vert1 + 1]),
                  R3Sub(shape.positions[shape.springs[k].vert1 + 1],
                        shape.positions[shape.springs[k].vert0 + 1]),
                  R3Sub(shape.velocities[shape.springs[k].vert1 + 1],
                        shape.velocities[shape.springs[k].vert0 + 1]))),
            k + 1)

\* lines 283-290: Euler's method on the particles that have a mass
EulerVelocities(shape, forces, ddt) ==
    [i \in 1..Len(shape.invmass) |->
        IF FNonZero(shape.invmass[i])
        THEN R3Add(shape.velocities[i],
                   R3Scale(R3Scale(forces[i], ddt), shape.invmass[i]))
        ELSE shape.velocities[i]]

EulerPositions(shape, velocities, ddt) ==
    [i \in 1..Len(shape.invmass) |->
        IF FNonZero(shape.invmass[i])
        THEN R3Add(shape.positions[i], R3Scale(velocities[i], ddt))
        ELSE shape.positions[i]]

EulerStep(shape, forces, velocities, ddt) ==
    [shape EXCEPT !.forces = forces, !.velocities = velocities,
                  !.positions = EulerPositions(shape, velocities, ddt)]

\* the forces keep the entries beyond the particles
BaseForces(shape, params) ==
    [i \in 1..Len(shape.forces) |->
        IF i <= Len(shape.invmass)
        THEN BaseForce(shape.forces[i], shape.invmass[i], params)
        ELSE shape.forces[i]]

MsForces(shape, forces, ddt) ==
    EulerStep(shape, forces, EulerVelocities(shape, forces, ddt), ddt)

\* one pass of the loop of lines 238-292 over one shape (the shapes do not
\* act on one another)
RECURSIVE MsSteps(_, _, _)
MsSteps(shape, params, s) ==
    IF s >= params.mssteps THEN shape
    ELSE MsSteps(MsForces(shape,
                    SpringForceLoop(shape, BaseForces(shape, params), 1),
                    RDiv(params.deltat, Flt(params.mssteps))),
                 params, s + 1)

\* lines 303-308
Bounce(velocity, normal, projection, params) ==
    R3Sub(R3Scale(R3Sub(velocity, R3Scale(normal, projection)),
                  RSub(Flt(1), params.bounce[1])),
          R3Scale(R3Scale(normal, projection),
                  RSub(Flt(1), params.bounce[2])))

\* lines 297-311 for the particle i
RECURSIVE MsCollideLoop(_, _, _, _, _)
MsCollideLoop(colliders, position, velocity, params, c) ==
    IF c > Len(colliders) THEN [position |-> position, velocity |-> velocity]
    ELSE LET hit == collide_collider(colliders[c], position)
         IN  IF hit.hit
             THEN MsCollideLoop(colliders,
                     R3Add(hit.position,
                           R3Scale(hit.normal, Rnd(Frac(5, 1000)))),
                     Bounce(velocity, hit.normal,
                            RDot(velocity, hit.normal), params),
                     params, c + 1)
             ELSE MsCollideLoop(colliders, position, velocity, params, c + 1)

MsCollided(shape, colliders, params) ==
    [i \in 1..Len(shape.invmass) |->
        IF FNonZero(shape.invmass[i])
        THEN MsCollideLoop(colliders, shape.positions[i],
                           shape.velocities[i], params, 1)
        ELSE [position |-> shape.positions[i],
              velocity |-> shape.velocities[i]]]

\* the velocity filter, lines 315-323 and 400-406
FilterVelocity(velocity, params) ==
    IF FLt(RLength(velocity), params.minvelocity) THEN zero3f ELSE velocity

VelocityFilter(shape, velocities, params) ==
    [i \in 1..Len(shape.invmass) |->
        IF FNonZero(shape.invmass[i])
        THEN FilterVelocity(
                R3Scale(velocities[i],
                        RSub(Flt(1), RMul(params.dumping, params.deltat))),
                params)
        ELSE velocities[i]]

Recomputed(shape) ==
    IF shape.quads # <<>>
    THEN [shape EXCEPT !.normals = compute_normals(shape.quads, shape.positions)]
    ELSE shape

MsFinish(shape, collided, params) ==
    Recomputed([shape EXCEPT
        !.positions = [i \in 1..Len(collided) |-> collided[i].position],
        !.velocities = VelocityFilter(shape,
                          [i \in 1..Len(collided) |-> collided[i].velocity],
                          params)])

MsShape(shape, colliders, params) ==
    MsFinish(shape, MsCollided(shape, colliders, params), params)

\* simulate_massspring(scene, params)
simulate_massspring(pscene, params) ==
    [pscene EXCEPT !.shapes =
        [k \in 1..Len(pscene.shapes) |->
            MsShape(MsSteps([pscene.shapes[k] EXCEPT
                                !.old_positions = pscene.shapes[k].positions],
                            params, 0),
                    pscene.colliders, params)]]

\* lines 344-348: the predicted velocities and positions
PredictVelocities(shape, params) ==
    [i \in 1..Len(shape.invmass) |->
        IF FNonZero(shape.invmass[i])
        THEN R3Add(shape.velocities[i],
                   R3Scale(<<Flt(0), FMul(Flt(-1), params.gravity), Flt(0)>>,
                           params.deltat))
        ELSE shape.velocities[i]]

PredictPositions(shape, velocities, params) ==
    [i \in 1..Len(shape.invmass) |->
        IF FNonZero(shape.invmass[i])
        THEN R3Add(shape.positions[i], R3Scale(velocities[i], params.deltat))
        ELSE shape.positions[i]]

\* lines 351-362: the collisions of the particles with the colliders
RECURSIVE CollisionLoop(_, _, _, _, _, _)
CollisionLoop(invmass, positions, colliders, i, c, collisions) ==
    IF i > Len(invmass) THEN collisions
    ELSE IF ~FNonZero(invmass[i]) \/ c > Len(colliders)
    THEN CollisionLoop(invmass, positions, colliders, i + 1, 1, collisions)
    ELSE LET hit == collide_collider(colliders[c], positions[i])
         IN  CollisionLoop(invmass, positions, colliders, i, c + 1,
                IF hit.hit
                THEN Append(collisions,
                            [vert |-> i - 1, position |-> hit.position,
                             normal |-> hit.normal])
                ELSE collisions)

\* lines 371-379
SpringMove(positions, spring, w0, w1, dir, lambda) ==
    [positions EXCEPT
        ![spring.vert0 + 1] = R3Add(@, R3Scale(dir, RMul(w0, lambda))),
        ![spring.vert1 + 1] = R3Sub(@, R3Scale(dir, RMul(w1, lambda)))]

SpringSolve(positions, spring, w0, w1, dir, len) ==
    SpringMove(positions, spring, w0, w1, R3Div(dir, len),
               RDiv(RMul(RSub(Flt(1), spring.coeff),
                         RSub(len, spring.rest)),
                    RAdd(w0, w1)))

SpringConstraint(positions, spring, w0, w1, dir) ==
    SpringSolve(positions, spring, w0, w1, dir, RLength(dir))

\* lines 365-380
RECURSIVE SpringLoop(_, _, _, _)
SpringLoop(invmass, springs, positions, k) ==
    IF k > Len(springs) THEN positions
    ELSE IF ~FNonZero(RAdd(invmass[springs[k].vert0 + 1],
                           invmass[springs[k].vert1 + 1]))
    THEN SpringLoop(invmass, springs, positions, k + 1)
    ELSE SpringLoop(invmass, springs,
            SpringConstraint(positions, springs[k],
               invmass[springs[k].vert0 + 1], invmass[springs[k].vert1 + 1],
               R3Sub(positions[springs[k].vert1 + 1],
                     positions[springs[k].vert0 + 1])),
            k + 1)

\* lines 384-388
Project(position, collision, projection) ==
    IF FGe(projection, Flt(0)) THEN position
    ELSE R3Add(position,
               R3Scale(collision.normal, FMul(Flt(-1), projection)))

\* lines 381-389
RECURSIVE ProjectLoop(_, _, _, _)
ProjectLoop(invmass, collisions, positions, k) ==
    IF k > Len(collisions) THEN positions
    ELSE IF ~FNonZero(invmass[collisions[k].vert + 1])
    THEN ProjectLoop(invmass, collisions, positions, k + 1)
    ELSE ProjectLoop(invmass, collisions,
            [positions EXCEPT ![collisions[k].vert + 1] =
                Project(@, collisions[k],
                        RDot(R3Sub(@, collisions[k].position),
                             collisions[k].normal))],
            k + 1)

\* lines 364-390
RECURSIVE ConstraintLoop(_, _, _, _, _, _)
ConstraintLoop(invmass, springs, collisions, positions, steps, i) ==
    IF i >= steps THEN positions
    ELSE ConstraintLoop(invmass, springs, collisions,
            ProjectLoop(invmass, collisions,
                        SpringLoop(invmass, springs, positions, 1), 1),
            steps, i + 1)

\* lines 393-397
PbdVelocities(shape, positions, params) ==
    [i \in 1..Len(shape.invmass) |->
        IF FNonZero(shape.invmass[i])
        THEN R3Div(R3Sub(positions[i], shape.old_positions[i]), params.deltat)
        ELSE shape.velocities[i]]

PbdFinish(shape, positions, params) ==
    Recomputed([shape EXCEPT
        !.positions = positions,
        !.velocities = VelocityFilter(shape,
                          PbdVelocities(shape, positions, params), params)])

PbdSolve(shape, collisions, params) ==
    PbdFinish([shape EXCEPT !.collisions = collisions],
              ConstraintLoop(shape.invmass, shape.springs, collisions,
                             shape.positions, params.pdbsteps, 0),
              params)

PbdCollide(shape, colliders, params) ==
    PbdSolve(shape,
             CollisionLoop(shape.invmass, shape.positions, colliders, 1, 1,
                           <<>>),
             params)

PbdPredict(shape, velocities, params) ==
    [shape EXCEPT !.old_positions = shape.positions,
                  !.velocities = velocities,
                  !.positions = PredictPositions(shape, velocities, params)]

\* the body of the loop over the shapes, lines 341-413
PbdShape(shape, colliders, params) ==
    PbdCollide(PbdPredict(shape, PredictVelocities(shape, params), params),
               colliders, params)

\* simulate_pbd(scene, params)
simulate_pbd(pscene, params) ==
    [pscene EXCEPT !.shapes =
        [k \in 1..Len(pscene.shapes) |->
            PbdShape(pscene.shapes[k], pscene.colliders, params)]]

\* simulate_frame(scene, params); the default case throws invalid_argument
simulate_frame(pscene, params) ==
    IF params.solver = "mass_spring" THEN simulate_massspring(pscene, params)
    ELSE simulate_pbd(pscene, params)

\* the loop of simulate_frames, lines 438-441
RECURSIVE FrameLoop(_, _, _)
FrameLoop(pscene, params, idx) ==
    IF idx >= params.frames THEN pscene
    ELSE FrameLoop(simulate_frame(pscene, params), params, idx + 1)

\* ------------------------------------------------------------------------
\* Particle simulator: scenes, parameters and the calls of the application
\* ------------------------------------------------------------------------
V3(x, y, z) == <<Flt(x), Flt(y), Flt(z)>>

\* particle_shape{} of add_shape: no particle, spring coefficient and
\* emitter scale zero
EmptyShape ==
    [quads |-> <<>>, points |-> <<>>,
     initial_positions |-> <<>>, initial_normals |-> <<>>,
     initial_velocities |-> <<>>, initial_invmass |-> <<>>,
     initial_radius |-> <<>>, initial_pinned |-> <<>>,
     spring_coeff |-> Flt(0), emit_rngscale |-> Flt(0),
     positions |-> <<>>, normals |-> <<>>, velocities |-> <<>>,
     invmass |-> <<>>, radius |-> <<>>, old_positions |-> <<>>,
     forces |-> <<>>, springs |-> <<>>, collisions |-> <<>>]

\* add_particles(scene, points, positions, radius, mass, random_velocity):
\* the initial normals get the size of the positions of the new shape,
\* which has none yet
add_particles(points, positions, radius, mass, random_velocity) ==
    [EmptyShape EXCEPT
        !.points = points,
        !.initial_positions = positions,
        !.initial_radius = radius,
        !.initial_invmass =
            [i \in 1..Len(positions) |->
                RDiv(Flt(1), RMul(mass, Flt(Len(positions))))],
        !.initial_velocities = [i \in 1..Len(positions) |-> zero3f],
        !.emit_rngscale = random_velocity,
        !.positions = positions,
        !.radius = radius]

\* add_cloth(scene, quads, positions, normals, radius, mass, coeff, pinned)
add_cloth(quads, positions, normals, radius, mass, coeff, pinned) ==
    [EmptyShape EXCEPT
        !.quads = quads,
        !.initial_positions = positions,
        !.initial_normals = normals,
        !.initial_radius = radius,
        !.initial_invmass =
            [i \in 1..Len(positions) |->
                RDiv(Flt(1), RMul(mass, Flt(Len(positions))))],
        !.initial_velocities = [i \in 1..Len(positions) |-> zero3f],
        !.initial_pinned = pinned,
        !.spring_coeff = coeff,
        !.positions = positions,
        !.radius = radius]

\* add_collider(scene, triangles, quads, positions, normals, radius)
add_collider(quads, positions, normals, radius) ==
    [quads |-> quads, positions |-> positions, normals |-> normals,
     radius |-> radius, bvh |-> FALSE]

\* one quad of cloth hanging in the plane z = 0, its first two vertices on
\* top; in the second the second vertex lies on the first
ClothPositions ==
    {<<V3(0, 4, 0), V3(2, 4, 0), V3(2, 2, 0), V3(0, 2, 0)>>,
     <<V3(0, 4, 0), V3(0, 4, 0), V3(2, 2, 0), V3(0, 2, 0)>>}
\* spring coefficient and pinned vertices
ClothKinds == {<<Frac(1, 2), <<0>>>>, <<Frac(1, 2), <<0, 1>>>>, <<Flt(0), <<0>>>>}

Cloths ==
    {add_cloth(<<<<0, 1, 2, 3>>>>, positions,
               [i \in 1..4 |-> V3(0, 0, 1)],
               [i \in 1..4 |-> Frac(1, 16)], Flt(1), kind[1], kind[2]) :
        positions \in ClothPositions, kind \in ClothKinds}

Emitter ==
    add_particles(<<0, 1>>, <<V3(4, 3, 0), V3(4, 5, 1)>>,
                  <<Frac(1, 16), Frac(1, 16)>>, Flt(1), Flt(1))

\* a floor below the cloth
Floor ==
    add_collider(<<<<0, 1, 2, 3>>>>,
                 <<V3(-8, 1, -8), V3(-8, 1, 8), V3(8, 1, 8), V3(8, 1, -8)>>,
                 [i \in 1..4 |-> V3(0, 1, 0)],
                 [i \in 1..4 |-> Frac(1, 16)])

\* the cloth alone, or with the emitter and the floor
ParticleScenes ==
    {[shapes |-> <<cloth>> \o rest[1], colliders |-> rest[2]] :
        cloth \in Cloths, rest \in {<<<<>>, <<>>>>, <<<<Emitter>>, <<Floor>>>>}}

MaxFrames == 2
MaxInits == 2

ParticleParams ==
    [seed : {0},
     solver : {"mass_spring", "position_based", "unknown"},
     flag : BOOLEAN,
     gravity : {Flt(0), Flt(8)},
     deltat : {Frac(1, 4)},
     mssteps : {2},
     pdbsteps : {2},
     bounce : {<<Frac(1, 16), Frac(1, 8)>>},
     dumping : {Flt(1)},
     minvelocity : {Frac(1, 16)},
     frames : {MaxFrames}]

InitSim ==
    /\ scene = EmptyScene
    /\ isec = NoQuery
    /\ progress = NoProgress
    /\ RenderIdle
    /\ \E pscene \in ParticleScenes, params \in ParticleParams,
          order \in {"left", "right"} :
          sim = [pc |-> "new", scene |-> pscene, params |-> params,
                 order |-> order, inits |-> 0, frames |-> 0]

\* the application calls init_simulation(scene, params)
InitSimulation ==
    /\ sim.pc \in {"new", "ready"}
    /\ sim.inits < MaxInits
    /\ \E r \in {init_simulation(sim.scene, sim.params, sim.order)} :
          sim' = [sim EXCEPT !.pc = "ready",
                             !.scene = [shapes |-> r.shapes,
                                        colliders |-> r.colliders],
                             !.inits = @ + 1]
    /\ UNCHANGED <<bvhvars, rendervars>>

\* the application calls simulate_frame(scene, params) on an initialized
\* simulation; an unknown solver throws before anything is done
SimulateFrame ==
    /\ sim.pc = "ready"
    /\ sim.frames < MaxFrames
    /\ IF sim.params.solver \in {"mass_spring", "position_based"}
       THEN \E r \in {simulate_frame(sim.scene, sim.params)} :
               sim' = [sim EXCEPT !.scene = r, !.frames = @ + 1]
       ELSE sim' = [sim EXCEPT !.pc = "failed"]
    /\ UNCHANGED <<bvhvars, rendervars>>

\* the application calls simulate_frames(scene, params, progress_cb):
\* init_simulation, then params.frames times simulate_frame
SimulateFrames ==
    /\ sim.pc \in {"new", "ready"}
    /\ sim.inits < MaxInits
    /\ \E r \in {init_simulation(sim.scene, sim.params, sim.order)} :
          IF sim.params.solver \in {"mass_spring", "position_based"}
          THEN \E s \in {FrameLoop([shapes |-> r.shapes,
                                    colliders |-> r.colliders],
                                   sim.params, 0)} :
                  sim' = [sim EXCEPT !.pc = "ready", !.scene = s,
                                     !.inits = @ + 1]
          ELSE sim' = [sim EXCEPT !.pc = "failed",
                                  !.scene = [shapes |-> r.shapes,
                                             colliders |-> r.colliders],
                                  !.inits = @ + 1]
    /\ UNCHANGED <<bvhvars, rendervars>>

NextSim == InitSimulation \/ SimulateFrame \/ SimulateFrames

SpecSim == InitSim /\ [][NextSim]_vars

\* ------------------------------------------------------------------------
\* Properties of the particle simulator
\* ------------------------------------------------------------------------
\* the particles init_simulation gives the inverse mass 0
PinnedOf(shape) ==
    {shape.initial_pinned[j] + 1 : j \in 1..Len(shape.initial_pinned)}

\* C29: once init_simulation has run, whatever calls of simulate_frame and
\* simulate_frames follow, with either solver, with or without wind,
\* springs and colliders, every pinned particle is where it was put
C29_PinnedNeverMove ==
    sim.pc \in {"ready", "failed"} =>
       \A k \in 1..Len(sim.scene.shapes) :
          \A i \in PinnedOf(sim.scene.shapes[k]) :
             /\ sim.scene.shapes[k].invmass[i] = Flt(0)
             /\ sim.scene.shapes[k].positions[i]
                   = sim.scene.shapes[k].initial_positions[i]

\* the shape as add_cloth and add_particles leave it
FreshShape(shape) ==
    [shape EXCEPT !.positions = shape.initial_positions,
                  !.normals = <<>>, !.velocities = <<>>, !.invmass = <<>>,
                  !.radius = shape.initial_radius, !.old_positions = <<>>,
                  !.forces = <<>>, !.springs = <<>>, !.collisions = <<>>]

\* what init_simulation makes of the scene the first time
FirstInit ==
    init_simulation(
       [shapes |-> [k \in 1..Len(sim.scene.shapes) |->
                       FreshShape(sim.scene.shapes[k])],
        colliders |-> sim.scene.colliders],
       sim.params, sim.order)

SpringSet(shape) == {shape.springs[j] : j \in 1..Len(shape.springs)}

ResetShape(shape, first) ==
    /\ \A f \in {"positions", "normals", "velocities", "invmass", "radius"} :
          shape[f] = first[f]
    /\ SpringSet(shape) = SpringSet(first)
    /\ Len(shape.forces) = Len(shape.invmass)

\* C30: every call of init_simulation, the first or a later one, leaves
\* every shape with the positions, normals, velocities, inverse masses and
\* radii of the first call, the same set of springs, and one force per
\* particle
C30_InitResets ==
    [][InitSimulation =>
          \A k \in 1..Len(sim.scene.shapes) :
             ResetShape(sim'.scene.shapes[k], FirstInit.shapes[k])]_vars

====
